---- MODULE Spec2Model ----
(***************************************************************************)
(* Model of the AI-usage catalogue (kamjadi/workboard-ai-catalogue).       *)
(*                                                                         *)
(* The state is the content of the SQLite database of app/database.py:     *)
(* one set of rows per table, the AUTOINCREMENT counters, the export file  *)
(* last written to the export directory, and the HTTP response of the last *)
(* request.  Every action is one request handler of app/routes together    *)
(* with the app/crud.py calls it makes.                                    *)
(***************************************************************************)
EXTENDS Integers, Sequences, FiniteSets, TLC

VARIABLES functions, teams, tools, capabilities, responses, seq, exported, txn, last

vars == <<functions, teams, tools, capabilities, responses, seq, exported, txn, last>>

db == <<functions, teams, tools, capabilities, responses, seq>>

\* ------------------------------------------------------------------------
\* Bounds of the model (not program constants).
\* ------------------------------------------------------------------------

\* Entries inserted in one run (cap on the responses AUTOINCREMENT counter).
MaxResponses == 3

\* Data rows of an uploaded CSV file.
MaxRows == 2

\* Taxonomy rows inserted per table in one run on top of the seeded ones.
MaxInserts == 2

\* Entries filed before an export in one run.
MaxExported == 2

\* Most writes of updated_at to one entry, and most entries filed before updates.
MaxUpdates == 2

\* ------------------------------------------------------------------------
\* Values.
\* ------------------------------------------------------------------------

\* Python None / SQL NULL in an id column (AUTOINCREMENT ids start at 1).
NULL == 0

\* Python None / SQL NULL in a text column.
NONE == "None"

\* Python None / SQL NULL in a REAL column.
NoValue == -1

MethodType == {"workflow", "task", "experiment"}

ImpactType == {"cost_savings", "time_savings", "quality", "new_capability"}

\* Frequencies the responses table accepts (CHECK constraint).
DbFrequency == {"one_time", "daily", "weekly", "monthly"}

\* An absent impact slot.
NoImpact == [type |-> NONE, value |-> NoValue, frequency |-> NONE, annual_value |-> NoValue]

NoImpacts == <<NoImpact, NoImpact, NoImpact, NoImpact>>

\* str.lower() on the strings of the model.
Lower(s) ==
    CASE s = "Sales" -> "sales"
      [] s = "SALES" -> "sales"
      [] s = "Marketing" -> "marketing"
      [] s = "Ops" -> "ops"
      [] s = "NA" -> "na"
      [] s = "EMEA" -> "emea"
      [] s = "Brand" -> "brand"
      [] s = "ChatGPT" -> "chatgpt"
      [] s = "Claude" -> "claude"
      [] s = "Other" -> "other"
      [] s = "Drafting" -> "drafting"
      [] s = "Coding" -> "coding"
      [] s = "Task" -> "task"
      [] s = "Unknown(1)" -> "unknown(1)"
      [] s = "Unknown(2)" -> "unknown(2)"
      [] s = "Unknown(3)" -> "unknown(3)"
      [] OTHER -> s

\* str.strip() on the strings of the model.
Strip(s) ==
    CASE s = " " -> ""
      [] s = " Sales " -> "Sales"
      [] s = " Ops" -> "Ops"
      [] s = " Claude" -> "Claude"
      [] s = " fix bugs" -> "fix bugs"
      [] OTHER -> s

\* ORDER BY name (BINARY collation): the strings of the model in byte order.
NameOrder ==
    <<"", " ", " Claude", " Ops", " Sales ", " fix bugs", "Brand", "ChatGPT", "Claude",
      "Coding", "Drafting", "EMEA", "Marketing", "NA", "Ops", "Other", "SALES", "Sales",
      "Task", "Unknown(1)", "Unknown(2)", "Unknown(3)", "bogus", "brand", "chatgpt",
      "claude", "coding", "drafting", "emea", "fix bugs", "marketing", "na", "ops",
      "other", "sales", "task", "write mail">>

NameRank(s) == CHOOSE i \in 1..Len(NameOrder) : NameOrder[i] = s

Ids(rows) == {r.id : r \in rows}

Max(S) == IF S = {} THEN 0 ELSE CHOOSE x \in S : \A y \in S : y <= x

\* ------------------------------------------------------------------------
\* crud.py: single-row reads.
\* ------------------------------------------------------------------------

\* get_function returns the row or None; here the set of matching rows.
get_function(function_id) == {f \in functions : f.id = function_id}

\* get_team joins the team to its function (inner join).
get_team(team_id) ==
    {t \in teams : t.id = team_id /\ \E f \in functions : f.id = t.function_id}

get_tool(tool_id) == {t \in tools : t.id = tool_id}

get_capability(capability_id) == {c \in capabilities : c.id = capability_id}

\* get_response joins function and capability (inner) and team (left).
get_response(response_id) ==
    {r \in responses : /\ r.id = response_id
                       /\ \E f \in functions : f.id = r.function_id
                       /\ \E c \in capabilities : c.id = r.capability_id}

\* crud.py: list reads (active rows only, as the default argument asks).
get_functions == {f \in functions : f.active}

get_teams == {t \in teams : t.active /\ \E f \in functions : f.id = t.function_id}

get_tools == {t \in tools : t.active}

get_capabilities == {c \in capabilities : c.active}

\* ------------------------------------------------------------------------
\* database.py: the schema's constraints, enforced on every connection
\* (PRAGMA foreign_keys = ON).
\* ------------------------------------------------------------------------

\* FOREIGN KEY clauses of teams and responses: rows that reference the key.
TeamsOfFunction(function_id) == {t \in teams : t.function_id = function_id}

ResponsesOfFunction(function_id) == {r \in responses : r.function_id = function_id}

ResponsesOfTeam(team_id) == {r \in responses : r.team_id = team_id}

ResponsesOfCapability(capability_id) == {r \in responses : r.capability_id = capability_id}

\* CHECK constraints of the responses table on a row about to be written.
ResponseChecksHold(r) ==
    /\ r.method_type \in MethodType
    /\ \A i \in 1..4 : /\ r.impacts[i].type \in ImpactType \cup {NONE}
                       /\ r.impacts[i].frequency \in DbFrequency \cup {NONE}

\* FOREIGN KEY clauses of the responses table on a row about to be written.
ResponseKeysHold(r) ==
    /\ r.function_id \in Ids(functions)
    /\ r.team_id = NULL \/ r.team_id \in Ids(teams)
    /\ r.capability_id \in Ids(capabilities)

\* ------------------------------------------------------------------------
\* Initial state: the schema of init_db seeded by seed_sample_data (which the
\* startup event runs on an empty database), cut down to two functions,
\* three teams, two tools and two capabilities.
\* ------------------------------------------------------------------------

SeedFunctions ==
    {[id |-> 1, name |-> "Sales", active |-> TRUE],
     [id |-> 2, name |-> "Marketing", active |-> TRUE]}

SeedTeams ==
    {[id |-> 1, function_id |-> 1, name |-> "NA", active |-> TRUE],
     [id |-> 2, function_id |-> 1, name |-> "EMEA", active |-> TRUE],
     [id |-> 3, function_id |-> 2, name |-> "Brand", active |-> TRUE]}

SeedTools ==
    {[id |-> 1, name |-> "ChatGPT", active |-> TRUE],
     [id |-> 2, name |-> "Other", active |-> TRUE]}

SeedCapabilities ==
    {[id |-> 1, name |-> "Drafting", active |-> TRUE],
     [id |-> 2, name |-> "Other", active |-> TRUE]}

NoTxn == [pc |-> "idle"]

NoExport == [written |-> FALSE]

Init ==
    /\ functions = SeedFunctions
    /\ teams = SeedTeams
    /\ tools = SeedTools
    /\ capabilities = SeedCapabilities
    /\ responses = {}
    /\ seq = [functions |-> 2, teams |-> 3, tools |-> 2, capabilities |-> 2, responses |-> 0]
    /\ exported = NoExport
    /\ txn = NoTxn
    /\ last = [op |-> "startup"]

\* ------------------------------------------------------------------------
\* Entry store: routes/responses.py and the crud.py calls behind it.
\* ------------------------------------------------------------------------

\* The row INSERTed by crud.create_response for payload p under a new id.
\* updated_at counts the writes of the column after its DEFAULT
\* CURRENT_TIMESTAMP: 0 is the time of the INSERT, and every later write of
\* the operation time makes it larger.
ResponseRow(id, p) ==
    [id |-> id, function_id |-> p.function_id, team_id |-> p.team_id,
     method_type |-> p.method_type, capability_id |-> p.capability_id,
     description |-> p.description, tools_used |-> p.tools_used,
     other_tools |-> p.other_tools, impacts |-> p.impacts, updated_at |-> 0]

\* The foreign-key validation of the create_response route: the detail of the
\* 400 it raises, or NONE when the payload passes.
CreateResponseRejection(p) ==
    IF get_function(p.function_id) = {} THEN "Invalid function_id"
    ELSE IF p.team_id # NULL /\ get_team(p.team_id) = {} THEN "Invalid team_id"
    ELSE IF get_capability(p.capability_id) = {} THEN "Invalid capability_id"
    ELSE NONE

\* POST /api/responses
create_response(p) ==
    /\ txn = NoTxn
    /\ seq.responses < MaxResponses
    /\ LET id == seq.responses + 1
           row == ResponseRow(id, p)
       IN IF CreateResponseRejection(p) # NONE
          THEN /\ last' = [op |-> "create_response", status |-> 400,
                           detail |-> CreateResponseRejection(p)]
               /\ UNCHANGED <<responses, seq>>
          ELSE IF ~(ResponseChecksHold(row) /\ ResponseKeysHold(row))
          THEN \* sqlite3.IntegrityError, not caught: 500 and nothing committed
               /\ last' = [op |-> "create_response", status |-> 500,
                           detail |-> "IntegrityError"]
               /\ UNCHANGED <<responses, seq>>
          ELSE /\ responses' = responses \cup {row}
               /\ seq' = [seq EXCEPT !.responses = id]
               /\ last' = [op |-> "create_response", status |-> 201, detail |-> NONE]
    /\ UNCHANGED <<functions, teams, tools, capabilities, exported, txn>>

\* DELETE /api/responses/{response_id}
delete_response(response_id) ==
    /\ txn = NoTxn
    /\ IF get_response(response_id) = {}
       THEN /\ last' = [op |-> "delete_response", status |-> 404]
            /\ UNCHANGED responses
       ELSE /\ responses' = {r \in responses : r.id # response_id}
            /\ last' = [op |-> "delete_response", status |-> 200]
    /\ UNCHANGED <<functions, teams, tools, capabilities, seq, exported, txn>>

\* ------------------------------------------------------------------------
\* Taxonomy store: guarded deletes of routes/config.py and crud.py.
\* ------------------------------------------------------------------------

\* FunctionHasDependents without the COUNT(*) over responses.
FunctionHasTeams(function_id) == Cardinality(TeamsOfFunction(function_id)) > 0

\* The two COUNT(*) checks at the head of crud.delete_function.
FunctionHasDependents(function_id) ==
    \/ Cardinality(TeamsOfFunction(function_id)) > 0
    \/ Cardinality(ResponsesOfFunction(function_id)) > 0

\* TeamHasDependents counting only the entries filed under the team's own function.
TeamHasOwnFunctionDependents(team_id) ==
    Cardinality({r \in ResponsesOfTeam(team_id) :
                    \E t \in teams : t.id = team_id /\ t.function_id = r.function_id}) > 0

\* The COUNT(*) check at the head of crud.delete_team.
TeamHasDependents(team_id) == Cardinality(ResponsesOfTeam(team_id)) > 0

\* The COUNT(*) check at the head of crud.delete_capability.
CapabilityHasDependents(capability_id) ==
    Cardinality(ResponsesOfCapability(capability_id)) > 0

\* DELETE /api/config/functions/{function_id}
delete_function(function_id) ==
    /\ txn = NoTxn
    /\ IF FunctionHasDependents(function_id)
       THEN /\ last' = [op |-> "delete_function", status |-> 400,
                        detail |-> "Cannot delete: function has teams or responses"]
            /\ UNCHANGED functions
       ELSE IF TeamsOfFunction(function_id) \cup ResponsesOfFunction(function_id) # {}
       THEN \* the DELETE violates a foreign key: IntegrityError, nothing committed
            /\ last' = [op |-> "delete_function", status |-> 500,
                        detail |-> "IntegrityError"]
            /\ UNCHANGED functions
       ELSE IF get_function(function_id) = {}
       THEN \* rowcount = 0: the route raises the same 400
            /\ last' = [op |-> "delete_function", status |-> 400,
                        detail |-> "Cannot delete: function has teams or responses"]
            /\ UNCHANGED functions
       ELSE /\ functions' = {f \in functions : f.id # function_id}
            /\ last' = [op |-> "delete_function", status |-> 200,
                        detail |-> "Function deleted"]
    /\ UNCHANGED <<teams, tools, capabilities, responses, seq, exported, txn>>

\* DELETE /api/config/teams/{team_id}
delete_team(team_id) ==
    /\ txn = NoTxn
    /\ IF TeamHasDependents(team_id)
       THEN /\ last' = [op |-> "delete_team", status |-> 400,
                        detail |-> "Cannot delete: team has responses"]
            /\ UNCHANGED teams
       ELSE IF ResponsesOfTeam(team_id) # {}
       THEN /\ last' = [op |-> "delete_team", status |-> 500,
                        detail |-> "IntegrityError"]
            /\ UNCHANGED teams
       ELSE IF {t \in teams : t.id = team_id} = {}
       THEN /\ last' = [op |-> "delete_team", status |-> 400,
                        detail |-> "Cannot delete: team has responses"]
            /\ UNCHANGED teams
       ELSE /\ teams' = {t \in teams : t.id # team_id}
            /\ last' = [op |-> "delete_team", status |-> 200,
                        detail |-> "Team deleted"]
    /\ UNCHANGED <<functions, tools, capabilities, responses, seq, exported, txn>>

\* DELETE /api/config/capabilities/{capability_id}
delete_capability(capability_id) ==
    /\ txn = NoTxn
    /\ IF CapabilityHasDependents(capability_id)
       THEN /\ last' = [op |-> "delete_capability", status |-> 400,
                        detail |-> "Cannot delete: capability has responses"]
            /\ UNCHANGED capabilities
       ELSE IF ResponsesOfCapability(capability_id) # {}
       THEN /\ last' = [op |-> "delete_capability", status |-> 500, detail |-> "IntegrityError"]
            /\ UNCHANGED capabilities
       ELSE IF get_capability(capability_id) = {}
       THEN /\ last' = [op |-> "delete_capability", status |-> 400,
                        detail |-> "Cannot delete: capability has responses"]
            /\ UNCHANGED capabilities
       ELSE /\ capabilities' = {c \in capabilities : c.id # capability_id}
            /\ last' = [op |-> "delete_capability", status |-> 200,
                        detail |-> "Capability deleted"]
    /\ UNCHANGED <<functions, teams, tools, responses, seq, exported, txn>>

\* DELETE /api/config/tools/{tool_id}: no guard, tools_used is not a foreign key.
delete_tool(tool_id) ==
    /\ txn = NoTxn
    /\ IF get_tool(tool_id) = {}
       THEN /\ last' = [op |-> "delete_tool", status |-> 404]
            /\ UNCHANGED tools
       ELSE /\ tools' = {t \in tools : t.id # tool_id}
            /\ last' = [op |-> "delete_tool", status |-> 200]
    /\ UNCHANGED <<functions, teams, capabilities, responses, seq, exported, txn>>

\* ------------------------------------------------------------------------
\* Reassignment engine: POST /api/config/teams/{team_id}/move-and-delete.
\* The route is routes/config.py; crud.move_team_entries_and_delete is not
\* among the source files and is modelled from section 4.4 of the
\* specification (inspect, decide target, migrate, delete).
\* ------------------------------------------------------------------------

\* MoveRejection without the same-function test on the target.
MoveRejectionAnyFunction(team_id, target_team_id) ==
    IF {t \in teams : t.id = team_id} = {} THEN "Team not found"
    ELSE IF target_team_id = NULL THEN NONE
    ELSE IF target_team_id = team_id \/ {s \in teams : s.id = target_team_id} = {}
    THEN "Invalid target team"
    ELSE NONE

\* Inspect and decide target: the named failure, or NONE when the team exists
\* and the target is null or another team of the same function.
MoveRejection(team_id, target_team_id) ==
    IF {t \in teams : t.id = team_id} = {} THEN "Team not found"
    ELSE IF target_team_id = NULL THEN NONE
    ELSE IF target_team_id = team_id \/ {s \in teams : s.id = target_team_id} = {}
    THEN "Invalid target team"
    ELSE IF \E t \in teams, s \in teams : /\ t.id = team_id
                                          /\ s.id = target_team_id
                                          /\ s.function_id # t.function_id
    THEN "CrossFunctionReassignment"
    ELSE NONE

\* MigratedResponses whose UPDATE is scoped to the team's function instead of
\* the team.
MigratedResponsesOfFunction(rows, team_id, target_team_id) ==
    {IF \E t \in teams : t.id = team_id /\ t.function_id = r.function_id
     THEN [r EXCEPT !.team_id = target_team_id] ELSE r : r \in rows}

\* Migrate: every entry of the team gets the target as its team_id.
MigratedResponses(rows, team_id, target_team_id) ==
    {IF r.team_id = team_id THEN [r EXCEPT !.team_id = target_team_id] ELSE r : r \in rows}

\* Delete: the team row is removed.
TeamsWithout(rows, team_id) == {t \in rows : t.id # team_id}

\* The whole operation, migration and deletion committed together; the
\* success response carries the number of entries migrated.
move_entries_and_delete_team(team_id, target_team_id) ==
    /\ txn = NoTxn
    /\ IF MoveRejection(team_id, target_team_id) # NONE
       THEN /\ last' = [op |-> "move_and_delete", status |-> 400,
                        detail |-> MoveRejection(team_id, target_team_id)]
            /\ UNCHANGED <<teams, responses>>
       ELSE LET moved == MigratedResponses(responses, team_id, target_team_id)
                kept == TeamsWithout(teams, team_id)
            IN IF \E r \in moved : r.team_id # NULL /\ r.team_id \notin Ids(kept)
               THEN \* a foreign key fails inside the transaction: rolled back
                    /\ last' = [op |-> "move_and_delete", status |-> 400,
                                detail |-> "PartialMigration"]
                    /\ UNCHANGED <<teams, responses>>
               ELSE /\ responses' = moved
                    /\ teams' = kept
                    /\ last' = [op |-> "move_and_delete", status |-> 200,
                                detail |-> Cardinality(ResponsesOfTeam(team_id))]
    /\ UNCHANGED <<functions, tools, capabilities, seq, exported, txn>>

\* The same operation statement by statement, as other connections see it.
\* Every writer of crud.py opens a connection, executes its statements and
\* commits once before closing; sqlite3 holds the statements of an open
\* transaction back from every other connection until that commit, and undoes
\* them when the process dies before it.  txn is the open transaction: the
\* tables as the writing connection sees them.

\* What other connections read after a statement that was executed
\* without a transaction around it (each statement committed on its own).
VisibleAutocommit(committed, written) == written

\* What other connections read after a statement of an open transaction: the
\* committed rows, never the rows written so far.
Visible(committed, written) == committed

\* Inspect, decide target, and execute the UPDATE of the dependent entries.
MoveMigrate(team_id, target_team_id) ==
    /\ txn = NoTxn
    /\ IF MoveRejection(team_id, target_team_id) # NONE
       THEN /\ last' = [op |-> "move_and_delete", status |-> 400,
                        detail |-> MoveRejection(team_id, target_team_id)]
            /\ UNCHANGED <<responses, txn>>
       ELSE LET moved == MigratedResponses(responses, team_id, target_team_id)
            IN /\ txn' = [pc |-> "migrated", team_id |-> team_id,
                          responses |-> moved, teams |-> teams]
               /\ responses' = Visible(responses, moved)
               /\ last' = [op |-> "move_migrate", status |-> NoValue,
                           detail |-> Cardinality(ResponsesOfTeam(team_id))]
    /\ UNCHANGED <<functions, teams, tools, capabilities, seq, exported>>

\* Execute the DELETE of the team inside the same transaction.
MoveDelete ==
    /\ txn.pc = "migrated"
    /\ LET kept == TeamsWithout(txn.teams, txn.team_id)
       IN IF \E r \in txn.responses : r.team_id # NULL /\ r.team_id \notin Ids(kept)
          THEN \* a foreign key fails: the transaction is rolled back
               /\ txn' = NoTxn
               /\ last' = [op |-> "move_and_delete", status |-> 400,
                           detail |-> "PartialMigration"]
               /\ UNCHANGED teams
          ELSE /\ txn' = [txn EXCEPT !.pc = "deleted", !.teams = kept]
               /\ teams' = Visible(teams, kept)
               /\ last' = [last EXCEPT !.op = "move_delete"]
    /\ UNCHANGED <<functions, tools, capabilities, responses, seq, exported>>

\* Commit: both statements become visible together.
MoveCommit ==
    /\ txn.pc = "deleted"
    /\ responses' = txn.responses
    /\ teams' = txn.teams
    /\ txn' = NoTxn
    /\ last' = [last EXCEPT !.op = "move_and_delete", !.status = 200]
    /\ UNCHANGED <<functions, tools, capabilities, seq, exported>>

\* The process dies with the transaction open: the store recovers to the
\* committed rows.
Crash ==
    /\ txn # NoTxn
    /\ txn' = NoTxn
    /\ last' = [op |-> "crash", status |-> NoValue, detail |-> txn.pc]
    /\ UNCHANGED <<functions, teams, tools, capabilities, responses, seq, exported>>

\* ------------------------------------------------------------------------
\* Entry export and import: routes/export_import.py.  A CSV file is the
\* sequence of its data rows (the header is row 1, the first data row is
\* row 2); a cell holding a comma-separated list is the sequence of its
\* pieces (no name of the model contains a comma).
\* ------------------------------------------------------------------------

\* Default of the limit argument of crud.get_responses.
DefaultLimit == 100

Min(a, b) == IF a < b THEN a ELSE b

\* ORDER BY r.submitted_at DESC: entries are stamped in the order of their ids.
RECURSIVE NewestFirst(_)
NewestFirst(rows) ==
    IF rows = {} THEN <<>>
    ELSE LET r == CHOOSE x \in rows : \A y \in rows : y.id <= x.id
         IN <<r>> \o NewestFirst(rows \ {r})

\* crud.get_responses() with its default arguments: the join with functions
\* and capabilities, newest first, cut at the limit.
get_responses ==
    LET joined == {r \in responses : /\ \E f \in functions : f.id = r.function_id
                                      /\ \E c \in capabilities : c.id = r.capability_id}
        all == NewestFirst(joined)
    IN SubSeq(all, 1, Min(Len(all), DefaultLimit))

\* {x['id']: x['name'] for x in rows}.get(id, '')
NameById(rows, id) ==
    IF \E x \in rows : x.id = id THEN (CHOOSE x \in rows : x.id = id).name ELSE ""

\* tools.get(tid, f"Unknown({tid})")
ToolName(tid) ==
    IF \E t \in get_tools : t.id = tid
    THEN (CHOOSE t \in get_tools : t.id = tid).name
    ELSE "Unknown(" \o ToString(tid) \o ")"

\* csv.DictWriter writes None as the empty cell and a number as its digits.
CellOfText(v) == IF v = NONE THEN "" ELSE v

CellOfNumber(v) == IF v = NoValue THEN "" ELSE ToString(v)

\* The CSV row export_responses writes for entry r.
ExportRow(r) ==
    [function |-> NameById(get_functions, r.function_id),
     team |-> NameById(get_teams, r.team_id),
     method_type |-> r.method_type,
     capability |-> NameById(get_capabilities, r.capability_id),
     description |-> r.description,
     tools |-> [i \in 1..Len(r.tools_used) |-> ToolName(r.tools_used[i])],
     other_tools |-> r.other_tools,
     impacts |-> [i \in 1..4 |->
                    [type |-> CellOfText(r.impacts[i].type),
                     value |-> CellOfNumber(r.impacts[i].value),
                     frequency |-> CellOfText(r.impacts[i].frequency),
                     annual_value |-> CellOfNumber(r.impacts[i].annual_value)]]]

\* POST /api/responses/export.  exported.rows is the file; exported.source and
\* exported.taxonomy record the tables the file was written from.
export_responses ==
    /\ txn = NoTxn
    /\ exported' = [written |-> TRUE,
                    rows |-> [i \in 1..Len(get_responses) |-> ExportRow(get_responses[i])],
                    source |-> responses,
                    taxonomy |-> <<functions, teams, tools, capabilities>>]
    /\ last' = [op |-> "export_responses", status |-> 200, detail |-> Len(get_responses)]
    /\ UNCHANGED <<functions, teams, tools, capabilities, responses, seq, txn>>

\* {x['name'].lower(): x['id'] for x in rows}.get(key): rows come ordered by
\* name and a later row overwrites an earlier one with the same key; NULL
\* when the key is absent.
LookupId(rows, key) ==
    LET hits == {x \in rows : Lower(x.name) = key}
    IN IF hits = {} THEN NULL
       ELSE (CHOOSE x \in hits : \A y \in hits : NameRank(y.name) <= NameRank(x.name)).id

\* float(cell), None when the cell is empty or float() raises ValueError.
ParseNumber(cell) ==
    CASE cell = "5" -> 5
      [] cell = "260" -> 260
      [] OTHER -> NoValue

\* ParseImpact storing the type and frequency cells as written.
ParseImpactAsWritten(cells) ==
    [type |-> IF Strip(cells.type) = "" THEN NONE ELSE Strip(cells.type),
     value |-> ParseNumber(Strip(cells.value)),
     frequency |-> IF Strip(cells.frequency) = "" THEN NONE ELSE Strip(cells.frequency),
     annual_value |-> ParseNumber(Strip(cells.annual_value))]

\* One impact slot as import_responses reads it from its cells.
ParseImpact(cells) ==
    [type |-> IF Strip(cells.type) \in ImpactType THEN Strip(cells.type) ELSE NONE,
     value |-> ParseNumber(Strip(cells.value)),
     frequency |-> IF Strip(cells.frequency) \in DbFrequency THEN Strip(cells.frequency)
                   ELSE NONE,
     annual_value |-> ParseNumber(Strip(cells.annual_value))]

\* Validation of one CSV row: the errors in the order the code appends them,
\* and the entry data staged when there is none.
ParseRow(row) ==
    LET func_name == Strip(row.function)
        function_id == IF func_name = "" THEN NULL
                       ELSE LookupId(get_functions, Lower(func_name))
        function_errors ==
            IF func_name = "" THEN <<"Missing function">>
            ELSE IF function_id = NULL THEN <<"Unknown function: " \o func_name>>
            ELSE <<>>
        team_name == Strip(row.team)
        team_id == IF team_name # "" /\ function_id # NULL
                   THEN LookupId({t \in get_teams : t.function_id = function_id},
                                 Lower(team_name))
                   ELSE NULL
        team_errors ==
            IF team_name # "" /\ function_id # NULL /\ team_id = NULL
            THEN <<"Unknown team: " \o team_name \o " (for function " \o func_name \o ")">>
            ELSE <<>>
        cap_name == Strip(row.capability)
        capability_id == IF cap_name = "" THEN NULL
                         ELSE LookupId(get_capabilities, Lower(cap_name))
        capability_errors ==
            IF cap_name = "" THEN <<"Missing capability">>
            ELSE IF capability_id = NULL THEN <<"Unknown capability: " \o cap_name>>
            ELSE <<>>
        method_type == Lower(Strip(row.method_type))
        method_errors ==
            IF method_type \notin MethodType
            THEN <<"Invalid method_type: " \o method_type>> ELSE <<>>
        pieces == SelectSeq([i \in 1..Len(row.tools) |-> Strip(row.tools[i])],
                            LAMBDA n : n # "")
        known == SelectSeq(pieces, LAMBDA n : LookupId(get_tools, Lower(n)) # NULL)
        unknown == SelectSeq(pieces, LAMBDA n : LookupId(get_tools, Lower(n)) = NULL)
        tool_ids == [i \in 1..Len(known) |-> LookupId(get_tools, Lower(known[i]))]
        tool_errors == [i \in 1..Len(unknown) |-> "Unknown tool: " \o unknown[i]]
        other_tools_list ==
            SelectSeq([i \in 1..Len(row.other_tools) |-> Strip(row.other_tools[i])],
                      LAMBDA n : n # "")
        description == Strip(row.description)
        description_errors == IF description = "" THEN <<"Missing description">> ELSE <<>>
    IN [errors |-> function_errors \o team_errors \o capability_errors \o method_errors
                   \o tool_errors \o description_errors,
        data |-> [function_id |-> function_id, team_id |-> team_id,
                  capability_id |-> capability_id, method_type |-> method_type,
                  description |-> description, tools_used |-> tool_ids,
                  other_tools |-> other_tools_list,
                  impacts |-> [i \in 1..4 |-> ParseImpact(row.impacts[i])]]]

\* The validation loop over the data rows of the file.
RECURSIVE ParseRows(_)
ParseRows(rows) ==
    IF rows = <<>> THEN <<>>
    ELSE Append(ParseRows(SubSeq(rows, 1, Len(rows) - 1)), ParseRow(rows[Len(rows)]))

\* results['errors'] after the validation loop: one item per failing row, at
\* its row number (enumerate(reader, start=2)).
RowErrors(parsed) ==
    LET failing == SelectSeq([i \in 1..Len(parsed) |-> i],
                             LAMBDA i : parsed[i].errors # <<>>)
    IN [k \in 1..Len(failing) |-> [row |-> failing[k] + 1, errors |-> parsed[failing[k]].errors]]

\* rows_to_import: the staged data of the rows without errors, in file order.
RowsToImport(parsed) ==
    LET passing == SelectSeq([i \in 1..Len(parsed) |-> i],
                             LAMBDA i : parsed[i].errors = <<>>)
    IN [k \in 1..Len(passing) |-> parsed[passing[k]].data]

\* The entries left by the replace step when it clears whatever the file holds.
ClearedAlways(mode, rows_to_import) == IF mode = "replace" THEN {} ELSE responses

\* if mode == 'replace' and rows_to_import: crud.clear_all_responses()
Cleared(mode, rows_to_import) ==
    IF mode = "replace" /\ rows_to_import # <<>> THEN {} ELSE responses

\* The error items of the row-validation loop when it stops at a row's first
\* error.
RowErrorsFirstOnly(parsed) ==
    [k \in 1..Len(RowErrors(parsed)) |->
       [row |-> RowErrors(parsed)[k].row, errors |-> <<RowErrors(parsed)[k].errors[1]>>]]

\* The error items reported to the client.
ReportedErrors(parsed) == RowErrors(parsed)

\* POST /api/responses/import on a file with the given data rows.  Staged rows
\* are inserted one by one (crud.create_response_from_dict, one INSERT and
\* commit each); an INSERT the schema refuses is reported at row 'unknown'.
import_responses(rows, mode) ==
    \E parsed \in {ParseRows(rows)} :
    \E rows_to_import \in {RowsToImport(parsed)} :
    \E fits \in {SelectSeq(rows_to_import,
                           LAMBDA d : /\ ResponseChecksHold(ResponseRow(NULL, d))
                                      /\ ResponseKeysHold(ResponseRow(NULL, d)))} :
    \E errors \in {ReportedErrors(parsed)
                     \o [k \in 1..(Len(rows_to_import) - Len(fits)) |->
                           [row |-> "unknown", errors |-> <<"IntegrityError">>]]} :
       /\ txn = NoTxn
       /\ seq.responses + Len(fits) <= MaxResponses + MaxRows
       /\ responses' = Cleared(mode, rows_to_import)
                         \cup {ResponseRow(seq.responses + k, fits[k]) : k \in 1..Len(fits)}
       /\ seq' = [seq EXCEPT !.responses = seq.responses + Len(fits)]
       /\ last' = [op |-> "import_responses", status |-> 200, rows |-> rows,
                   detail |-> [success |-> Len(fits), errors |-> errors, mode |-> mode,
                               total_rows |-> Len(rows_to_import) + Len(errors)]]
       /\ UNCHANGED <<functions, teams, tools, capabilities, exported, txn>>

\* ------------------------------------------------------------------------
\* Taxonomy import: import_functions, import_teams, import_tools and
\* import_capabilities of routes/export_import.py.  A names file is the
\* sequence of its name cells, a teams file the sequence of its
\* (function, team) rows.  crud.clear_functions, clear_teams, clear_tools,
\* clear_capabilities and the create_*_by_name functions are not among the
\* source files: a clear is the DELETE of every row of the table, a create is
\* the INSERT of one row, both under the constraints of database.py.
\* ------------------------------------------------------------------------

\* The duplicate test of the scan when it compares the name as written.
IsDuplicateExact(name, existing) == name \in existing

\* if name.lower() in existing
IsDuplicate(name, existing) == Lower(name) \in existing

\* Outcome of a scan before its first row.
NoScan == [new |-> <<>>, skipped |-> 0, errors |-> <<>>]

\* The row loop of import_functions, import_tools and import_capabilities
\* from row i on: names to create, rows skipped as duplicates, rows in error.
RECURSIVE ScanNames(_, _, _, _)
ScanNames(rows, i, existing, acc) ==
    IF i > Len(rows) THEN acc
    ELSE LET name == Strip(rows[i])
         IN IF name = ""
            THEN ScanNames(rows, i + 1, existing,
                           [acc EXCEPT !.errors =
                                  Append(@, [row |-> i + 1, error |-> "Missing name"])])
            ELSE IF IsDuplicate(name, existing)
            THEN ScanNames(rows, i + 1, existing, [acc EXCEPT !.skipped = @ + 1])
            ELSE ScanNames(rows, i + 1, existing \cup {Lower(name)},
                           [acc EXCEPT !.new = Append(@, name)])

\* The row loop of import_teams from row i on; new holds (func_id, team_name).
RECURSIVE ScanTeams(_, _, _, _)
ScanTeams(rows, i, existing, acc) ==
    IF i > Len(rows) THEN acc
    ELSE LET func_name == Strip(rows[i].function)
             team_name == Strip(rows[i].team)
             func_id == LookupId(get_functions, Lower(func_name))
         IN IF func_name = ""
            THEN ScanTeams(rows, i + 1, existing,
                           [acc EXCEPT !.errors =
                                  Append(@, [row |-> i + 1, error |-> "Missing function"])])
            ELSE IF team_name = ""
            THEN ScanTeams(rows, i + 1, existing,
                           [acc EXCEPT !.errors =
                                  Append(@, [row |-> i + 1, error |-> "Missing team"])])
            ELSE IF func_id = NULL
            THEN ScanTeams(rows, i + 1, existing,
                           [acc EXCEPT !.errors =
                                  Append(@, [row |-> i + 1,
                                             error |-> "Unknown function: " \o func_name])])
            ELSE IF <<func_id, Lower(team_name)>> \in existing
            THEN ScanTeams(rows, i + 1, existing, [acc EXCEPT !.skipped = @ + 1])
            ELSE ScanTeams(rows, i + 1, existing \cup {<<func_id, Lower(team_name)>>},
                           [acc EXCEPT !.new = Append(@, <<func_id, team_name>>)])

\* UNIQUE(name): position of the first name whose INSERT is refused because
\* the table, or an earlier INSERT of the run, holds it; 0 when none is.
FirstClash(table, names) ==
    LET clashes == {k \in 1..Len(names) :
                      \/ \E x \in table : x.name = names[k]
                      \/ \E j \in 1..(k - 1) : names[j] = names[k]}
    IN IF clashes = {} THEN 0 ELSE CHOOSE k \in clashes : \A j \in clashes : k <= j

\* The rows INSERTed for the names under the ids after n.
NamedRows(names, n) ==
    {[id |-> n + k, name |-> names[k], active |-> TRUE] : k \in 1..Len(names)}

\* The response of a taxonomy import that ran to its end.
ImportReport(op, rows, mode, before, scan) ==
    [op |-> op, status |-> 200, rows |-> rows, mode |-> mode, before |-> before,
     detail |-> [success |-> Len(scan.new), skipped |-> scan.skipped,
                 errors |-> scan.errors,
                 total_rows |-> Len(scan.new) + scan.skipped + Len(scan.errors)]]

\* The response when a statement raised sqlite3.IntegrityError.
ImportFailure(op, rows, mode, before) ==
    [op |-> op, status |-> 500, rows |-> rows, mode |-> mode, before |-> before,
     detail |-> "IntegrityError"]

\* The table after the clear (replace mode) and the creates of a names import,
\* the creates stopping at the first refused INSERT.
ImportedNames(table, mode, names, n) ==
    LET base == IF mode = "replace" THEN {} ELSE table
        clash == FirstClash(base, names)
    IN base \cup NamedRows(IF clash = 0 THEN names ELSE SubSeq(names, 1, clash - 1), n)

\* POST /api/config/import/functions
import_functions(rows, mode) ==
    \E scan \in {ScanNames(rows, 1, {Lower(f.name) : f \in get_functions}, NoScan)} :
       /\ txn = NoTxn
       /\ seq.functions + Len(scan.new) <= Cardinality(SeedFunctions) + MaxInserts
       /\ IF mode = "replace" /\ (teams # {} \/ responses # {})
          THEN \* DELETE FROM functions is refused by a referencing team or entry
               /\ last' = ImportFailure("import_functions", rows, mode, functions)
               /\ UNCHANGED <<functions, seq>>
          ELSE /\ functions' = ImportedNames(functions, mode, scan.new, seq.functions)
               /\ seq' = [seq EXCEPT !.functions =
                            Max(Ids(functions') \cup {seq.functions})]
               /\ last' = IF FirstClash(IF mode = "replace" THEN {} ELSE functions,
                                        scan.new) = 0
                          THEN ImportReport("import_functions", rows, mode, functions, scan)
                          ELSE ImportFailure("import_functions", rows, mode, functions)
       /\ UNCHANGED <<teams, tools, capabilities, responses, exported, txn>>

\* POST /api/config/import/tools
import_tools(rows, mode) ==
    \E scan \in {ScanNames(rows, 1, {Lower(t.name) : t \in get_tools}, NoScan)} :
       /\ txn = NoTxn
       /\ seq.tools + Len(scan.new) <= Cardinality(SeedTools) + MaxInserts
       /\ tools' = ImportedNames(tools, mode, scan.new, seq.tools)
       /\ seq' = [seq EXCEPT !.tools = Max(Ids(tools') \cup {seq.tools})]
       /\ last' = IF FirstClash(IF mode = "replace" THEN {} ELSE tools, scan.new) = 0
                  THEN ImportReport("import_tools", rows, mode, tools, scan)
                  ELSE ImportFailure("import_tools", rows, mode, tools)
       /\ UNCHANGED <<functions, teams, capabilities, responses, exported, txn>>

\* POST /api/config/import/capabilities
import_capabilities(rows, mode) ==
    \E scan \in {ScanNames(rows, 1, {Lower(c.name) : c \in get_capabilities}, NoScan)} :
       /\ txn = NoTxn
       /\ seq.capabilities + Len(scan.new) <= Cardinality(SeedCapabilities) + MaxInserts
       /\ IF mode = "replace" /\ responses # {}
          THEN \* DELETE FROM capabilities is refused by a referencing entry
               /\ last' = ImportFailure("import_capabilities", rows, mode, capabilities)
               /\ UNCHANGED <<capabilities, seq>>
          ELSE /\ capabilities' =
                     ImportedNames(capabilities, mode, scan.new, seq.capabilities)
               /\ seq' = [seq EXCEPT !.capabilities =
                            Max(Ids(capabilities') \cup {seq.capabilities})]
               /\ last' = IF FirstClash(IF mode = "replace" THEN {} ELSE capabilities,
                                        scan.new) = 0
                          THEN ImportReport("import_capabilities", rows, mode,
                                            capabilities, scan)
                          ELSE ImportFailure("import_capabilities", rows, mode, capabilities)
       /\ UNCHANGED <<functions, teams, tools, responses, exported, txn>>

\* POST /api/config/import/teams
import_teams(rows, mode) ==
    \E scan \in {ScanTeams(rows, 1, {<<t.function_id, Lower(t.name)>> : t \in get_teams},
                           NoScan)} :
       /\ txn = NoTxn
       /\ seq.teams + Len(scan.new) <= Cardinality(SeedTeams) + MaxInserts
       /\ IF mode = "replace" /\ \E r \in responses : r.team_id # NULL
          THEN \* DELETE FROM teams is refused by a referencing entry
               /\ last' = ImportFailure("import_teams", rows, mode, teams)
               /\ UNCHANGED <<teams, seq>>
          ELSE LET base == IF mode = "replace" THEN {} ELSE teams
               IN /\ teams' = base \cup
                       {[id |-> seq.teams + k, function_id |-> scan.new[k][1],
                         name |-> scan.new[k][2], active |-> TRUE] : k \in 1..Len(scan.new)}
                  /\ seq' = [seq EXCEPT !.teams = seq.teams + Len(scan.new)]
                  /\ last' = ImportReport("import_teams", rows, mode, teams, scan)
       /\ UNCHANGED <<functions, tools, capabilities, responses, exported, txn>>

\* ------------------------------------------------------------------------
\* Specifications of the taxonomy store's guarded deletes, the reassignment
\* engine and the entry store, from the seeded database.
\* ------------------------------------------------------------------------

\* Request payloads of POST /api/responses.
CreatePayloads ==
    [function_id : 1..2, team_id : {NULL} \cup 1..3, capability_id : {1},
     method_type : {"task"}, description : {"write mail"}, tools_used : {<<>>},
     other_tools : {<<>>}, impacts : {NoImpacts}]

\* Ids a request may name: the seeded ones (an id names no row once its row
\* is deleted; entry ids name no row until assigned).
FunctionIds == Ids(SeedFunctions)

TeamIds == Ids(SeedTeams)

CapabilityIds == Ids(SeedCapabilities)

ToolIds == Ids(SeedTools)

ResponseIds == 1..MaxResponses

\* Spec: entries are filed while teams are deleted or merged away.
Next ==
    \/ \E p \in CreatePayloads : create_response(p)
    \/ \E id \in TeamIds : delete_team(id)
    \/ \E id \in TeamIds, target \in {NULL} \cup TeamIds :
          move_entries_and_delete_team(id, target)

Spec == Init /\ [][Next]_vars

\* SpecDelete: entries are filed and withdrawn while functions, teams and
\* capabilities are deleted behind their guards.
NextDelete ==
    \/ \E p \in CreatePayloads : create_response(p)
    \/ \E id \in ResponseIds : delete_response(id)
    \/ \E id \in FunctionIds : delete_function(id)
    \/ \E id \in TeamIds : delete_team(id)
    \/ \E id \in CapabilityIds : delete_capability(id)

SpecDelete == Init /\ [][NextDelete]_vars

\* SpecTxn: move-and-delete runs statement by statement while other requests
\* file entries (writers wait for the open transaction) and the process may
\* die between any two statements.
NextTxn ==
    \/ \E p \in CreatePayloads : create_response(p)
    \/ \E id \in TeamIds, target \in {NULL} \cup TeamIds : MoveMigrate(id, target)
    \/ MoveDelete
    \/ MoveCommit
    \/ Crash

SpecTxn == Init /\ [][NextTxn]_vars

\* An impact slot with every field set, and the slots of an entry using it.
OneImpact ==
    [type |-> "time_savings", value |-> 5, frequency |-> "weekly", annual_value |-> 260]

OneImpacts == <<OneImpact, NoImpact, NoImpact, NoImpact>>

\* Payloads of POST /api/responses filed before an export or an import: an
\* entry with a team, a tool and an impact, and an entry without any; in
\* StrayPayloads, an entry whose team is a team of another function (the
\* route checks that the team exists, not whose it is).
EntryPayloads ==
    {[function_id |-> 1, team_id |-> 1, capability_id |-> 1, method_type |-> "workflow",
      description |-> "write mail", tools_used |-> <<1>>, other_tools |-> <<>>,
      impacts |-> OneImpacts],
     [function_id |-> 2, team_id |-> NULL, capability_id |-> 2, method_type |-> "task",
      description |-> "fix bugs", tools_used |-> <<>>, other_tools |-> <<>>,
      impacts |-> NoImpacts]}

StrayPayloads ==
    {[function_id |-> 2, team_id |-> 1, capability_id |-> 1, method_type |-> "task",
      description |-> "write mail", tools_used |-> <<>>, other_tools |-> <<>>,
      impacts |-> NoImpacts]}

\* SpecRoundTrip: entries are filed and withdrawn, tools are deleted, the
\* entries are exported and the export file is imported in append mode.
NextRoundTrip ==
    \/ \E p \in EntryPayloads \cup StrayPayloads :
          seq.responses < MaxExported /\ create_response(p)
    \/ \E id \in 1..(2 * MaxExported) : delete_response(id)
    \/ \E id \in {1} : delete_tool(id)
    \/ export_responses
    \/ exported.written /\ import_responses(exported.rows, "append")

SpecRoundTrip == Init /\ [][NextRoundTrip]_vars

\* Cells of an impact slot left empty.
NoImpactCells == [type |-> "", value |-> "", frequency |-> "", annual_value |-> ""]

\* A CSV row with empty other_tools and impact cells.
CsvRow(function, team, capability, method_type, description, tool_names) ==
    [function |-> function, team |-> team, capability |-> capability,
     method_type |-> method_type, description |-> description, tools |-> tool_names,
     other_tools |-> <<>>,
     impacts |-> <<NoImpactCells, NoImpactCells, NoImpactCells, NoImpactCells>>]

\* Rows of hand-written import files: a well-formed row; a row with a bad
\* method_type and no description; a row naming an unknown function,
\* capability and tool; a well-formed row that needs trimming and lowering.
GoodRow == CsvRow("Sales", "", "Drafting", "task", "write mail", <<>>)

BogusRow == CsvRow("Sales", "", "Drafting", "bogus", "", <<>>)

UnknownRow == CsvRow("Ops", "NA", "Coding", "task", "write mail", <<"ChatGPT", " Claude">>)

TidyRow == CsvRow(" Sales ", "NA", "Drafting", "Task", " fix bugs", <<"ChatGPT">>)

FileRows == {GoodRow, BogusRow, UnknownRow, TidyRow}

\* The import files: up to MaxRows data rows.
Files == UNION {[1..n -> FileRows] : n \in 0..MaxRows}

\* SpecImport: entries are filed and files are imported in either mode.
NextImport ==
    \/ \E p \in EntryPayloads : create_response(p)
    \/ \E rows \in Files, mode \in {"append", "replace"} :
          seq.responses + Len(rows) <= MaxResponses /\ import_responses(rows, mode)

SpecImport == Init /\ [][NextImport]_vars

\* Cells of hand-written taxonomy files: a name that exists in another case
\* or as written, new names (one needing trimming), and a blank cell.
FunctionCells == {"SALES", " Ops", "Task"}

ToolCells == {"ChatGPT", " Claude", " "}

CapabilityCells == {"Drafting"}

TeamCells ==
    {[function |-> "SALES", team |-> "Brand"], [function |-> "Ops", team |-> "NA"]}

\* The files over a set of cells: up to MaxRows data rows.
FilesOf(cells) == UNION {[1..n -> cells] : n \in 0..MaxRows}

TaxonomyModes == {"merge", "replace"}

\* SpecTaxImport: function and team files are imported in either mode.
NextTaxImport ==
    \/ \E rows \in FilesOf(FunctionCells), mode \in TaxonomyModes : import_functions(rows, mode)
    \/ \E rows \in FilesOf(TeamCells), mode \in TaxonomyModes : import_teams(rows, mode)

SpecTaxImport == Init /\ [][NextTaxImport]_vars

\* SpecTaxReplace: tool and capability files are imported in either mode
\* while entries are filed.
NextTaxReplace ==
    \/ \E p \in EntryPayloads : create_response(p)
    \/ \E rows \in FilesOf(ToolCells), mode \in TaxonomyModes : import_tools(rows, mode)
    \/ \E rows \in FilesOf(CapabilityCells), mode \in TaxonomyModes :
          import_capabilities(rows, mode)

SpecTaxReplace == Init /\ [][NextTaxReplace]_vars

\* ------------------------------------------------------------------------
\* Claims checked under Spec.
\* ------------------------------------------------------------------------

\* The taxonomy tables and counters a team or entry operation leaves alone.
OtherTablesUnchanged == UNCHANGED <<functions, tools, capabilities, seq>>

\* S is another team of the function of T.
IsSibling(T, S) ==
    \E t \in teams, s \in teams :
        t.id = T /\ s.id = S /\ s.id # t.id /\ s.function_id = t.function_id

\* C1: move-and-delete on an existing team T with target a sibling team S of
\* the same function, or null, succeeds and reports the number k of dependent
\* entries; afterwards T is gone (and no other team is), exactly the k
\* dependent entries have team_id = target, every other entry is unchanged
\* and the number of entries is the same.
C1_MoveAndDelete ==
    [][\A T \in TeamIds, S \in {NULL} \cup TeamIds :
          (/\ last'.op = "move_and_delete"
           /\ move_entries_and_delete_team(T, S)
           /\ T \in Ids(teams)
           /\ S = NULL \/ IsSibling(T, S))
          => LET deps == {r \in responses : r.team_id = T}
             IN /\ last'.status = 200
                /\ last'.detail = Cardinality(deps)
                /\ teams' = {t \in teams : t.id # T}
                /\ \A r \in deps : [r EXCEPT !.team_id = S] \in responses'
                /\ \A r \in responses \ deps : r \in responses'
                /\ Ids(responses') = Ids(responses)
                /\ Cardinality(responses') = Cardinality(responses)
                /\ OtherTablesUnchanged]_vars

\* Reached: a move to a sibling team has just migrated two entries while a
\* third entry, filed elsewhere, exists.
C1_Witness ==
    /\ last.op = "move_and_delete"
    /\ last.status = 200
    /\ last.detail = 2
    /\ Cardinality(responses) = 3
    /\ \E t \in teams : Cardinality(ResponsesOfTeam(t.id)) = 2
    /\ \E r \in responses : r.team_id = NULL

\* C2: move-and-delete on an existing team T whose target is a team of a
\* different function fails with CrossFunctionReassignment and leaves every
\* team and every entry as it was.
C2_CrossFunctionRejected ==
    [][\A T \in TeamIds, S \in TeamIds :
          (/\ last'.op = "move_and_delete"
           /\ move_entries_and_delete_team(T, S)
           /\ \E t \in teams, s \in teams :
                 t.id = T /\ s.id = S /\ s.function_id # t.function_id)
          => /\ last'.status = 400
             /\ last'.detail = "CrossFunctionReassignment"
             /\ UNCHANGED db]_vars

\* Reached: a cross-function move has just been rejected while every team
\* has an entry that a partial migration would have moved.
C2_Witness ==
    /\ last.op = "move_and_delete"
    /\ last.status = 400
    /\ last.detail = "CrossFunctionReassignment"
    /\ Ids(teams) = TeamIds
    /\ \A t \in teams : ResponsesOfTeam(t.id) # {}

\* ------------------------------------------------------------------------
\* Claims checked under SpecDelete.
\* ------------------------------------------------------------------------

\* C4: delete_function on an existing function succeeds and removes exactly
\* that function when no team and no entry references it; otherwise it fails
\* with the has-teams-or-responses error and nothing changes.
C4_DeleteFunctionGuard ==
    [][\A id \in FunctionIds :
          (last'.op = "delete_function" /\ delete_function(id) /\ id \in Ids(functions))
          => IF TeamsOfFunction(id) = {} /\ ResponsesOfFunction(id) = {}
             THEN /\ last'.status = 200
                  /\ functions' = {f \in functions : f.id # id}
                  /\ UNCHANGED <<teams, tools, capabilities, responses, seq>>
             ELSE /\ last'.status = 400
                  /\ last'.detail = "Cannot delete: function has teams or responses"
                  /\ UNCHANGED db]_vars

\* Reached: a delete_function has just been refused while both functions
\* exist, one of them without any team but with an entry.
C4_Witness ==
    /\ last.op = "delete_function"
    /\ last.status = 400
    /\ Ids(functions) = FunctionIds
    /\ \E f \in functions : TeamsOfFunction(f.id) = {} /\ ResponsesOfFunction(f.id) # {}
    /\ \A f \in functions : TeamsOfFunction(f.id) # {} \/ ResponsesOfFunction(f.id) # {}

\* C5: delete_team and delete_capability on an existing row succeed, removing
\* exactly that row, when no entry references it; otherwise they fail and
\* nothing changes.
C5_DeleteTeamCapabilityGuard ==
    [][/\ \A id \in TeamIds :
             (last'.op = "delete_team" /\ delete_team(id) /\ id \in Ids(teams))
             => IF ResponsesOfTeam(id) = {}
                THEN /\ last'.status = 200
                     /\ teams' = {t \in teams : t.id # id}
                     /\ UNCHANGED <<functions, tools, capabilities, responses, seq>>
                ELSE /\ last'.status = 400
                     /\ last'.detail = "Cannot delete: team has responses"
                     /\ UNCHANGED db
       /\ \A id \in CapabilityIds :
             (/\ last'.op = "delete_capability"
              /\ delete_capability(id)
              /\ id \in Ids(capabilities))
             => IF ResponsesOfCapability(id) = {}
                THEN /\ last'.status = 200
                     /\ capabilities' = {c \in capabilities : c.id # id}
                     /\ UNCHANGED <<functions, teams, tools, responses, seq>>
                ELSE /\ last'.status = 400
                     /\ last'.detail = "Cannot delete: capability has responses"
                     /\ UNCHANGED db]_vars

\* Reached: a delete_team has just been refused while every seeded team
\* exists and has an entry, one of them filed under another function.
C5_Witness ==
    /\ last.op = "delete_team"
    /\ last.status = 400
    /\ Ids(teams) = TeamIds
    /\ \A t \in teams : ResponsesOfTeam(t.id) # {}
    /\ \E t \in teams : \E r \in ResponsesOfTeam(t.id) : r.function_id # t.function_id

\* ------------------------------------------------------------------------
\* Claims checked under SpecTxn.
\* ------------------------------------------------------------------------

\* C3: migration and team deletion are one atomic step.  In every state the
\* rows other requests read hold no entry of a deleted team, and every step
\* that changes those rows for a team T either moves none of T's entries and
\* keeps T, or moves all of them and removes T; a step that ends an open
\* transaction without committing (crash, rollback) changes no row.
C3_MoveIsAtomic ==
    /\ [](\A r \in responses : r.team_id # NULL => r.team_id \in Ids(teams))
    /\ [][\A T \in TeamIds :
            LET deps == ResponsesOfTeam(T)
                left == {r \in deps : \E q \in responses' : q.id = r.id /\ q.team_id # T}
            IN /\ left # {} => (left = deps /\ T \notin Ids(teams'))
               /\ (T \in Ids(teams) /\ T \notin Ids(teams')) =>
                     \A q \in responses' : q.team_id # T
               /\ (txn # NoTxn /\ txn' # NoTxn) => UNCHANGED <<teams, responses>>
               /\ last'.op = "crash" => UNCHANGED <<teams, responses>>]_vars

\* Reached: the process died after both statements of a move that had
\* entries to migrate were executed but not committed, and the team and its
\* entries are as they were.
C3_Witness ==
    /\ last.op = "crash"
    /\ last.detail = "deleted"
    /\ \E t \in teams : Cardinality(ResponsesOfTeam(t.id)) = 2
    /\ Ids(teams) = TeamIds

\* ------------------------------------------------------------------------
\* Claims checked under SpecRoundTrip.
\* ------------------------------------------------------------------------

\* An entry without its id.
Content(r) == [r EXCEPT !.id = NULL]

\* Two entry collections are equal up to ids: the same number of entries, and
\* every content occurs as often in one as in the other.
SameUpToIds(A, B) ==
    /\ Cardinality(A) = Cardinality(B)
    /\ \A r \in A \cup B :
          Cardinality({x \in A : Content(x) = Content(r)})
            = Cardinality({x \in B : Content(x) = Content(r)})

\* C6: round trip.  Importing an export file in append mode into an empty
\* entry collection, with the taxonomy the file was exported under, yields
\* the exported entries up to ids.
C6_RoundTrip ==
    [][(/\ last'.op = "import_responses"
        /\ exported.written
        /\ last'.rows = exported.rows
        /\ last'.detail.mode = "append"
        /\ responses = {}
        /\ <<functions, teams, tools, capabilities>> = exported.taxonomy)
       => SameUpToIds(responses', exported.source)]_vars

\* ------------------------------------------------------------------------
\* Claims checked under SpecImport (the taxonomy stays the seeded one).
\* ------------------------------------------------------------------------

\* What each row of the import files must give under the seeded taxonomy:
\* its errors, and the entry it becomes when it has none.
ExpectedErrors(row) ==
    CASE row = BogusRow -> <<"Invalid method_type: bogus", "Missing description">>
      [] row = UnknownRow -> <<"Unknown function: Ops", "Unknown capability: Coding",
                               "Unknown tool: Claude">>
      [] OTHER -> <<>>

ExpectedEntry(row) ==
    IF row = GoodRow
    THEN [id |-> NULL, function_id |-> 1, team_id |-> NULL, method_type |-> "task",
          capability_id |-> 1, description |-> "write mail", tools_used |-> <<>>,
          other_tools |-> <<>>, impacts |-> NoImpacts, updated_at |-> 0]
    ELSE [id |-> NULL, function_id |-> 1, team_id |-> 1, method_type |-> "task",
          capability_id |-> 1, description |-> "fix bugs", tools_used |-> <<1>>,
          other_tools |-> <<>>, impacts |-> NoImpacts, updated_at |-> 0]

\* Positions of the failing and of the well-formed rows of a file.
FailingRows(rows) == {i \in 1..Len(rows) : ExpectedErrors(rows[i]) # <<>>}

PassingRows(rows) == {i \in 1..Len(rows) : ExpectedErrors(rows[i]) = <<>>}

\* C7: every failing row of an imported file is reported exactly once, at its
\* row number counted from the header (first data row = 2), with all of its
\* errors in validation order, and is not inserted; every well-formed row of
\* the same file is inserted.
C7_RowErrorsCollected ==
    [][last'.op = "import_responses" =>
         LET rows == last'.rows
             errors == last'.detail.errors
             added == {r \in responses' : r.id > seq.responses}
         IN /\ Len(errors) = Cardinality(FailingRows(rows))
            /\ \A i \in FailingRows(rows) :
                  \E k \in 1..Len(errors) :
                     /\ errors[k].row = i + 1
                     /\ errors[k].errors = ExpectedErrors(rows[i])
            /\ last'.detail.success = Cardinality(PassingRows(rows))
            /\ Cardinality(added) = Cardinality(PassingRows(rows))
            /\ \A i \in PassingRows(rows) :
                  \E r \in added :
                     /\ r.id = seq.responses + Cardinality({j \in PassingRows(rows) : j <= i})
                     /\ Content(r) = ExpectedEntry(rows[i])]_vars

\* Reached: the file of the specification's example was imported; row 2 has
\* the bad method_type and no description, row 3 is well-formed and is now
\* the newest entry.
C7_Witness ==
    /\ last.op = "import_responses"
    /\ last.rows = <<BogusRow, GoodRow>>
    /\ last.detail.errors =
          <<[row |-> 2, errors |-> <<"Invalid method_type: bogus", "Missing description">>]>>
    /\ last.detail.success = 1
    /\ \E r \in responses : r.id = seq.responses /\ Content(r) = ExpectedEntry(GoodRow)

DistinctNewNames(rows, table) ==
    /\ \A i \in 1..Len(rows) :
          /\ Strip(rows[i]) # ""
          /\ \A x \in table : Lower(x.name) # Lower(Strip(rows[i]))
    /\ \A i, j \in 1..Len(rows) :
          i # j => Lower(Strip(rows[i])) # Lower(Strip(rows[j]))

\* C8: merge-import of functions is idempotent.  When a file of N names that
\* are distinct and absent from the store is imported in merge mode and then
\* imported again, the first import reports success = N, the second reports
\* success = 0 and skipped = N and leaves the functions as the first left
\* them, with no name held twice.
C8_MergeIdempotent ==
    [][(/\ last.op = "import_functions"
        /\ last'.op = "import_functions"
        /\ last.mode = "merge"
        /\ last'.mode = "merge"
        /\ last'.rows = last.rows
        /\ DistinctNewNames(last.rows, last.before))
       => /\ last.status = 200
          /\ last.detail.success = Len(last.rows)
          /\ last'.status = 200
          /\ last'.detail.success = 0
          /\ last'.detail.skipped = Len(last.rows)
          /\ functions' = functions
          /\ \A f, g \in functions' : f.id # g.id => Lower(f.name) # Lower(g.name)]_vars

\* Reached: the file with the two new names " Ops" and "Task" has just been
\* imported in merge mode for the second time: nothing added, both rows
\* skipped, and the two functions of the first import are in the store.
C8_Witness ==
    /\ last.op = "import_functions"
    /\ last.mode = "merge"
    /\ last.rows = <<" Ops", "Task">>
    /\ last.status = 200
    /\ last.detail.success = 0
    /\ last.detail.skipped = 2
    /\ last.before = functions
    /\ {f.name : f \in functions} = {"Sales", "Marketing", "Ops", "Task"}

\* ------------------------------------------------------------------------
\* Claims checked under SpecTaxReplace.
\* ------------------------------------------------------------------------

\* C10: after a replace import that ran to its end, the collection holds one
\* row for every non-empty name of the file, names differing only in case
\* counted once, whether or not the name was in the collection before.
C10_ReplaceLoadsFile ==
    [][(/\ last'.op \in {"import_tools", "import_capabilities"}
        /\ last'.mode = "replace"
        /\ last'.status = 200)
       => LET table == IF last'.op = "import_tools" THEN tools' ELSE capabilities'
              names == {Lower(Strip(last'.rows[i])) : i \in 1..Len(last'.rows)} \ {""}
          IN /\ {Lower(x.name) : x \in table} = names
             /\ Cardinality(table) = Cardinality(names)]_vars

\* ------------------------------------------------------------------------
\* Dashboards: the aggregate queries of crud.py.
\* ------------------------------------------------------------------------

\* The four impact slots of an entry (impact1_* .. impact4_*).
Slots == 1..4

\* COALESCE(x, d)
Coalesce(x, d) == IF x = NoValue THEN d ELSE x

\* CaseAnnualValue counting the slot instead of adding its annual value.
CaseOne(r, slot, type) ==
    IF r.impacts[slot].type = type THEN 1 ELSE 0

\* CASE WHEN impactN_type = type THEN impactN_annual_value ELSE 0 END
\* (NoValue is the NULL of a slot that has the type and no annual value).
CaseAnnualValue(r, slot, type) ==
    IF r.impacts[slot].type = type THEN r.impacts[slot].annual_value ELSE 0

\* SUM(CASE ... END) over rows: NULLs are skipped, and the sum of no value
\* at all is NULL.
RECURSIVE SumCase(_, _, _)
SumCase(rows, slot, type) ==
    IF rows = {} THEN NoValue
    ELSE LET r == CHOOSE x \in rows : TRUE
             v == CaseAnnualValue(r, slot, type)
             rest == SumCase(rows \ {r}, slot, type)
         IN IF v = NoValue THEN rest
            ELSE IF rest = NoValue THEN v
            ELSE v + rest

\* COALESCE(SUM(impact1 ...), 0) + ... + COALESCE(SUM(impact4 ...), 0)
SlotSums(rows, type) ==
    Coalesce(SumCase(rows, 1, type), 0) + Coalesce(SumCase(rows, 2, type), 0)
    + Coalesce(SumCase(rows, 3, type), 0) + Coalesce(SumCase(rows, 4, type), 0)

\* impact1_type = T OR impact2_type = T OR impact3_type = T OR impact4_type = T
HasImpactType(r, type) ==
    \/ r.impacts[1].type = type
    \/ r.impacts[2].type = type
    \/ r.impacts[3].type = type
    \/ r.impacts[4].type = type

\* CountWithImpactType counting the slots of the type instead of the entries.
CountSlotsOfImpactType(rows, type) ==
    Cardinality({x \in {<<r.id, slot>> : r \in rows, slot \in Slots} :
                    \E r \in rows : r.id = x[1] /\ r.impacts[x[2]].type = type})

\* COUNT(*) / COUNT(DISTINCT id) FROM responses WHERE <any slot has the type>
CountWithImpactType(rows, type) ==
    Cardinality({r.id : r \in {x \in rows : HasImpactType(x, type)}})

\* SUM(CASE WHEN method_type = m THEN 1 ELSE 0 END)
CountOfMethod(rows, m) == Cardinality({r \in rows : r.method_type = m})

\* crud.get_dashboard_summary()
get_dashboard_summary ==
    [total_methods |-> Cardinality(responses),
     total_workflows |-> CountOfMethod(responses, "workflow"),
     total_tasks |-> CountOfMethod(responses, "task"),
     total_experiments |-> CountOfMethod(responses, "experiment"),
     total_cost_savings |-> SlotSums(responses, "cost_savings"),
     total_time_savings |-> SlotSums(responses, "time_savings"),
     quality_count |-> CountWithImpactType(responses, "quality"),
     new_capability_count |-> CountWithImpactType(responses, "new_capability")]

\* SUM(CASE WHEN <any slot has the type> THEN 1 ELSE 0 END) over the rows
\* joined to one function.
RECURSIVE SumHasImpactType(_, _)
SumHasImpactType(rows, type) ==
    IF rows = {} THEN 0
    ELSE LET r == CHOOSE x \in rows : TRUE
         IN (IF HasImpactType(r, type) THEN 1 ELSE 0) + SumHasImpactType(rows \ {r}, type)

\* crud.get_dashboard_by_function(): one row per active function, LEFT JOINed
\* with its entries (the rows are kept as a set, their order left out).
get_dashboard_by_function ==
    {LET rows == {r \in responses : r.function_id = f.id}
     IN [function_id |-> f.id, function_name |-> f.name,
         method_count |-> Cardinality(rows),
         workflow_count |-> CountOfMethod(rows, "workflow"),
         task_count |-> CountOfMethod(rows, "task"),
         experiment_count |-> CountOfMethod(rows, "experiment"),
         cost_savings |-> SlotSums(rows, "cost_savings"),
         time_savings |-> SlotSums(rows, "time_savings"),
         quality_count |-> SumHasImpactType(rows, "quality"),
         new_capability_count |-> SumHasImpactType(rows, "new_capability")]
     : f \in {x \in functions : x.active}}

\* crud.get_dashboard_impact_types(): the four rows of the UNION ALL.
get_dashboard_impact_types ==
    <<[type |-> "Cost Savings", count |-> CountWithImpactType(responses, "cost_savings")],
      [type |-> "Time Savings", count |-> CountWithImpactType(responses, "time_savings")],
      [type |-> "Quality Improvement", count |-> CountWithImpactType(responses, "quality")],
      [type |-> "New Capability", count |-> CountWithImpactType(responses, "new_capability")]>>

\* crud.get_dashboard_by_category(): one record per method type.
get_dashboard_by_category ==
    [m \in MethodType |->
        LET rows == {r \in responses : r.method_type = m}
        IN [count |-> Cardinality(rows),
            cost_savings |-> SlotSums(rows, "cost_savings"),
            time_savings |-> SlotSums(rows, "time_savings"),
            impact_breakdown |->
                [cost_savings |-> CountWithImpactType(rows, "cost_savings"),
                 time_savings |-> CountWithImpactType(rows, "time_savings"),
                 quality |-> CountWithImpactType(rows, "quality"),
                 new_capability |-> CountWithImpactType(rows, "new_capability")]]]

\* ToolNameOrUnknown labelling an id without a tool with the empty name.
ToolNameOrBlank(tool_id) ==
    IF \E t \in tools : t.active /\ t.id = tool_id
    THEN (CHOOSE t \in tools : t.active /\ t.id = tool_id).name
    ELSE ""

\* tools.get(str(tool_id), 'Unknown') over the active tools.
ToolNameOrUnknown(tool_id) ==
    IF \E t \in tools : t.active /\ t.id = tool_id
    THEN (CHOOSE t \in tools : t.active /\ t.id = tool_id).name
    ELSE "Unknown"

\* IsSubstituted that never substitutes.
NeverSubstituted(tool_name, other_tools) == FALSE

\* tool_name.lower() == 'other' and other_tools (an entry without other
\* tools holds NULL there, the empty sequence of the model).
IsSubstituted(tool_name, other_tools) ==
    Lower(tool_name) = "other" /\ other_tools # <<>>

\* tool_counts[name] = tool_counts.get(name, 0) + 1, the dict kept in
\* insertion order.
Bump(tool_counts, name) ==
    IF \E i \in 1..Len(tool_counts) : tool_counts[i].tool = name
    THEN [i \in 1..Len(tool_counts) |->
            IF tool_counts[i].tool = name
            THEN [tool_counts[i] EXCEPT !.count = @ + 1]
            ELSE tool_counts[i]]
    ELSE Append(tool_counts, [tool |-> name, count |-> 1])

\* for other_name in other_names: ...
RECURSIVE BumpAll(_, _)
BumpAll(tool_counts, names) ==
    IF names = <<>> THEN tool_counts
    ELSE BumpAll(Bump(tool_counts, Head(names)), Tail(names))

\* The body of the loop over tool_ids for one id of one entry.
CountTool(tool_counts, r, tool_id) ==
    IF IsSubstituted(ToolNameOrUnknown(tool_id), r.other_tools)
    THEN BumpAll(tool_counts, r.other_tools)
    ELSE Bump(tool_counts, ToolNameOrUnknown(tool_id))

\* for tool_id in tool_ids: ...
RECURSIVE CountTools(_, _, _)
CountTools(tool_counts, r, tool_ids) ==
    IF tool_ids = <<>> THEN tool_counts
    ELSE CountTools(CountTool(tool_counts, r, Head(tool_ids)), r, Tail(tool_ids))

\* for row in rows: ... (the rows in the order of their ids)
RECURSIVE CountRows(_, _)
CountRows(tool_counts, rows) ==
    IF rows = {} THEN tool_counts
    ELSE LET r == CHOOSE x \in rows : \A y \in rows : x.id <= y.id
         IN CountRows(CountTools(tool_counts, r, r.tools_used), rows \ {r})

\* result.sort(key=count, reverse=True): a stable sort, largest count first.
RECURSIVE SortByCount(_)
SortByCount(result) ==
    IF result = <<>> THEN <<>>
    ELSE LET i == CHOOSE k \in 1..Len(result) :
                    /\ \A j \in 1..Len(result) : result[j].count <= result[k].count
                    /\ \A j \in 1..(k - 1) : result[j].count < result[k].count
         IN <<result[i]>> \o SortByCount(SubSeq(result, 1, i - 1) \o SubSeq(result, i + 1, Len(result)))

\* crud.get_dashboard_tools_used()
get_dashboard_tools_used == SortByCount(CountRows(<<>>, responses))

\* GET /api/dashboard/summary
dashboard_summary ==
    /\ txn = NoTxn
    /\ last' = [op |-> "get_dashboard_summary", status |-> 200,
                detail |-> get_dashboard_summary]
    /\ UNCHANGED <<functions, teams, tools, capabilities, responses, seq, exported, txn>>

\* GET /api/dashboard/by-function
dashboard_by_function ==
    /\ txn = NoTxn
    /\ last' = [op |-> "get_dashboard_by_function", status |-> 200,
                detail |-> get_dashboard_by_function]
    /\ UNCHANGED <<functions, teams, tools, capabilities, responses, seq, exported, txn>>

\* GET /api/dashboard/impact-types
dashboard_impact_types ==
    /\ txn = NoTxn
    /\ last' = [op |-> "get_dashboard_impact_types", status |-> 200,
                detail |-> get_dashboard_impact_types]
    /\ UNCHANGED <<functions, teams, tools, capabilities, responses, seq, exported, txn>>

\* GET /api/dashboard/by-category
dashboard_by_category ==
    /\ txn = NoTxn
    /\ last' = [op |-> "get_dashboard_by_category", status |-> 200,
                detail |-> get_dashboard_by_category]
    /\ UNCHANGED <<functions, teams, tools, capabilities, responses, seq, exported, txn>>

\* GET /api/dashboard/tools-used
dashboard_tools_used ==
    /\ txn = NoTxn
    /\ last' = [op |-> "get_dashboard_tools_used", status |-> 200,
                detail |-> get_dashboard_tools_used]
    /\ UNCHANGED <<functions, teams, tools, capabilities, responses, seq, exported, txn>>

\* ------------------------------------------------------------------------
\* SpecDashboard: entries with several impact slots and tools are filed,
\* tools are deleted, and the dashboards are read.
\* ------------------------------------------------------------------------

Impact(type, annual_value) ==
    [type |-> type, value |-> NoValue, frequency |-> NONE, annual_value |-> annual_value]

\* Payloads of POST /api/responses: cost savings in two slots and quality in
\* two slots, the "Other" tool with two names of other tools; time savings
\* with and without an annual value, the "Other" tool without other tools;
\* other tools without the "Other" tool.
DashboardPayloads ==
    {[function_id |-> 1, team_id |-> 1, capability_id |-> 1, method_type |-> "workflow",
      description |-> "write mail", tools_used |-> <<1, 2>>,
      other_tools |-> <<"Claude", "Copilot">>,
      impacts |-> <<Impact("cost_savings", 100), Impact("quality", NoValue),
                    Impact("cost_savings", 50), Impact("quality", NoValue)>>],
     [function_id |-> 1, team_id |-> NULL, capability_id |-> 2, method_type |-> "task",
      description |-> "fix bugs", tools_used |-> <<2>>, other_tools |-> <<>>,
      impacts |-> <<Impact("time_savings", NoValue), Impact("time_savings", 260),
                    Impact("cost_savings", NoValue), Impact("new_capability", NoValue)>>],
     [function_id |-> 2, team_id |-> 3, capability_id |-> 1, method_type |-> "workflow",
      description |-> "write mail", tools_used |-> <<1>>, other_tools |-> <<"Claude">>,
      impacts |-> <<Impact("quality", NoValue), Impact("time_savings", 12),
                    NoImpact, NoImpact>>]}

NextDashboard ==
    \/ \E p \in DashboardPayloads : create_response(p)
    \/ \E id \in ToolIds : delete_tool(id)
    \/ dashboard_summary
    \/ dashboard_by_function
    \/ dashboard_impact_types
    \/ dashboard_by_category
    \/ dashboard_tools_used

SpecDashboard == Init /\ [][NextDashboard]_vars

\* ------------------------------------------------------------------------
\* Claims checked under SpecDashboard.
\* ------------------------------------------------------------------------

\* The slots of the entries of rows that have the type, as <<entry id, slot>>.
SlotsOfType(rows, type) ==
    {x \in Ids(rows) \X Slots :
        \E r \in rows : r.id = x[1] /\ r.impacts[x[2]].type = type}

\* The annual value of slot x[2] of entry x[1], a missing one counting as 0.
AnnualValueAt(rows, x) ==
    LET v == (CHOOSE r \in rows : r.id = x[1]).impacts[x[2]].annual_value
    IN IF v = NoValue THEN 0 ELSE v

RECURSIVE SumOfSlots(_, _)
SumOfSlots(rows, S) ==
    IF S = {} THEN 0
    ELSE LET x == CHOOSE y \in S : TRUE
         IN AnnualValueAt(rows, x) + SumOfSlots(rows, S \ {x})

\* C11: the Summary's total_cost_savings and total_time_savings are the sums,
\* over every slot of every entry that has the type, of the slot's annual
\* value, a missing annual value counting as 0.
C11_SlotSum ==
    last.op = "get_dashboard_summary"
    => /\ last.detail.total_cost_savings
            = SumOfSlots(responses, SlotsOfType(responses, "cost_savings"))
       /\ last.detail.total_time_savings
            = SumOfSlots(responses, SlotsOfType(responses, "time_savings"))

\* The Summary was read over an entry with cost savings in two slots and an
\* entry with a time-savings slot that has no annual value.
C11_Witness ==
    /\ last.op = "get_dashboard_summary"
    /\ \E r \in responses : r.impacts[1].type = "cost_savings" /\ r.impacts[3].type = "cost_savings"
    /\ \E r \in responses : \E i \in Slots :
          r.impacts[i].type = "time_savings" /\ r.impacts[i].annual_value = NoValue
    /\ last.detail.total_cost_savings = 150
    /\ last.detail.total_time_savings = 260

\* The entries of rows with at least one slot of the type.
EntriesWithType(rows, type) ==
    {r.id : r \in {x \in rows : \E i \in Slots : x.impacts[i].type = type}}

\* C12: in the Summary, the by-function breakdown, the by-category breakdown
\* and the impact-type breakdown, the count of an impact type is the number
\* of distinct entries in scope with at least one slot of the type.
C12_EntryDistinctCounts ==
    /\ last.op = "get_dashboard_summary"
       => /\ last.detail.quality_count
               = Cardinality(EntriesWithType(responses, "quality"))
          /\ last.detail.new_capability_count
               = Cardinality(EntriesWithType(responses, "new_capability"))
    /\ last.op = "get_dashboard_by_function"
       => \A row \in last.detail :
             LET scope == {r \in responses : r.function_id = row.function_id}
             IN /\ row.quality_count = Cardinality(EntriesWithType(scope, "quality"))
                /\ row.new_capability_count
                     = Cardinality(EntriesWithType(scope, "new_capability"))
    /\ last.op = "get_dashboard_by_category"
       => \A m \in MethodType :
             LET scope == {r \in responses : r.method_type = m}
                 counts == last.detail[m].impact_breakdown
             IN /\ counts.cost_savings = Cardinality(EntriesWithType(scope, "cost_savings"))
                /\ counts.time_savings = Cardinality(EntriesWithType(scope, "time_savings"))
                /\ counts.quality = Cardinality(EntriesWithType(scope, "quality"))
                /\ counts.new_capability
                     = Cardinality(EntriesWithType(scope, "new_capability"))
    /\ last.op = "get_dashboard_impact_types"
       => /\ last.detail[1].count = Cardinality(EntriesWithType(responses, "cost_savings"))
          /\ last.detail[2].count = Cardinality(EntriesWithType(responses, "time_savings"))
          /\ last.detail[3].count = Cardinality(EntriesWithType(responses, "quality"))
          /\ last.detail[4].count = Cardinality(EntriesWithType(responses, "new_capability"))

\* The Summary was read over a single entry that has two quality slots, and
\* counts it once.
C12_Witness ==
    /\ last.op = "get_dashboard_summary"
    /\ Cardinality(responses) = 1
    /\ \E r \in responses : r.impacts[2].type = "quality" /\ r.impacts[4].type = "quality"
    /\ last.detail.quality_count = 1

\* The tool ids of entry r that are replaced by the entry's other tools: the
\* positions of tools_used whose tool is named "Other" in any case, when the
\* entry has other tools.
SubstitutedAt(r) ==
    {i \in 1..Len(r.tools_used) :
        /\ \E t \in tools : t.id = r.tools_used[i] /\ Lower(t.name) = "other"
        /\ Len(r.other_tools) > 0}

\* What the entries give to the bucket of a name: one per position of
\* tools_used that is not substituted and whose tool has the name ("Unknown"
\* being the name of an id without a tool), and one per substituted position
\* and position of other_tools that holds the name.
ExpectedCount(name) ==
    Cardinality({x \in Ids(responses) \X (1..2) :
        \E r \in responses :
            /\ r.id = x[1]
            /\ x[2] \in (1..Len(r.tools_used)) \ SubstitutedAt(r)
            /\ IF \E t \in tools : t.id = r.tools_used[x[2]]
               THEN \E t \in tools : t.id = r.tools_used[x[2]] /\ t.name = name
               ELSE name = "Unknown"})
    + Cardinality({x \in Ids(responses) \X (1..2) \X (1..2) :
        \E r \in responses :
            /\ r.id = x[1]
            /\ x[2] \in SubstitutedAt(r)
            /\ x[3] \in 1..Len(r.other_tools)
            /\ r.other_tools[x[3]] = name})

\* The names that can head a bucket.
BucketNames ==
    {t.name : t \in SeedTools} \cup {"Unknown", "Claude", "Copilot"}

UpdateFields == {"function_id", "team_id", "capability_id", "method_type", "description"}

\* A field of a ResponseUpdate payload: left out of the JSON body, given as
\* null, or given a value.
Unset == [kind |-> "unset"]

JsonNull == [kind |-> "null"]

Value(v) == [kind |-> "value", value |-> v]

\* The payload {}.
EmptyUpdate == [f \in UpdateFields |-> Unset]

\* `if response.function_id and ...`: an id that is given, not None and not 0.
Truthy(x) == x.kind = "value" /\ x.value # 0

\* The foreign-key validation of the update_response route: the detail of the
\* 400 it raises, or NONE when the payload passes.
UpdateResponseRejection(p) ==
    IF Truthy(p.function_id) /\ get_function(p.function_id.value) = {}
    THEN "Invalid function_id"
    ELSE IF Truthy(p.team_id) /\ get_team(p.team_id.value) = {}
    THEN "Invalid team_id"
    ELSE IF Truthy(p.capability_id) /\ get_capability(p.capability_id.value) = {}
    THEN "Invalid capability_id"
    ELSE NONE

\* update_fields: the fields of model_dump(exclude_unset=True) whose value is
\* not None.
AppliedFields(p) == {f \in UpdateFields : p[f].kind = "value"}

\* UpdatedRow writing NULL to every field the payload does not give, as a
\* replacement of the whole entry would.
ReplacedRow(r, p) ==
    [f \in DOMAIN r |->
        IF f \in AppliedFields(p) THEN p[f].value
        ELSE IF f \in {"method_type", "description"} THEN NONE
        ELSE IF f \in UpdateFields THEN NULL
        ELSE IF f = "updated_at" THEN r.updated_at + 1
        ELSE r[f]]

\* UPDATE responses SET <update_fields>, updated_at = ? WHERE id = ?
UpdatedRow(r, p) ==
    [f \in DOMAIN r |->
        IF f \in AppliedFields(p) THEN p[f].value
        ELSE IF f = "updated_at" THEN r.updated_at + 1
        ELSE r[f]]

\* UpdateKeysHold with PRAGMA foreign_keys left off.
UpdateKeysUnchecked(p) == TRUE

\* FOREIGN KEY clauses of the responses table on the ids the UPDATE writes
\* (an id of 0 is a value, not NULL, and names no row).
UpdateKeysHold(p) ==
    /\ "function_id" \in AppliedFields(p) => p.function_id.value \in Ids(functions)
    /\ "team_id" \in AppliedFields(p) => p.team_id.value \in Ids(teams)
    /\ "capability_id" \in AppliedFields(p) => p.capability_id.value \in Ids(capabilities)

\* PUT /api/responses/{response_id}: the route and crud.update_response.
update_response(response_id, p) ==
    /\ txn = NoTxn
    /\ \A r \in get_response(response_id) : r.updated_at < MaxUpdates
    /\ IF get_response(response_id) = {}
       THEN /\ last' = [op |-> "update_response", status |-> 404,
                        detail |-> "Response not found",
                        response_id |-> response_id, payload |-> p]
            /\ UNCHANGED responses
       ELSE IF UpdateResponseRejection(p) # NONE
       THEN /\ last' = [op |-> "update_response", status |-> 400,
                        detail |-> UpdateResponseRejection(p),
                        response_id |-> response_id, payload |-> p]
            /\ UNCHANGED responses
       ELSE IF AppliedFields(p) = {}
       THEN \* no update_fields: the entry is returned as it is
            /\ last' = [op |-> "update_response", status |-> 200, detail |-> NONE,
                        response_id |-> response_id, payload |-> p]
            /\ UNCHANGED responses
       ELSE LET row == CHOOSE r \in responses : r.id = response_id
                new == UpdatedRow(row, p)
            IN IF ~(UpdateKeysHold(p) /\ ResponseChecksHold(new))
               THEN \* sqlite3.IntegrityError, not caught: 500 and nothing committed
                    /\ last' = [op |-> "update_response", status |-> 500,
                                detail |-> "IntegrityError",
                                response_id |-> response_id, payload |-> p]
                    /\ UNCHANGED responses
               ELSE /\ responses' = (responses \ {row}) \cup {new}
                    /\ last' = [op |-> "update_response", status |-> 200, detail |-> NONE,
                                response_id |-> response_id, payload |-> p]
    /\ UNCHANGED <<functions, teams, tools, capabilities, seq, exported, txn>>

\* ------------------------------------------------------------------------
\* SpecUpdate: entries are filed and updated with partial payloads.
\* ------------------------------------------------------------------------

\* Payloads of PUT /api/responses/{id}: the empty payload; team_id given as
\* null; one field; two fields; a function, team and capability that do not
\* exist; a function id of 0; a team of another function.
UpdatePayloads ==
    {EmptyUpdate,
     [EmptyUpdate EXCEPT !.team_id = JsonNull],
     [EmptyUpdate EXCEPT !.description = Value("fix bugs")],
     [EmptyUpdate EXCEPT !.capability_id = Value(2), !.method_type = Value("experiment")],
     [EmptyUpdate EXCEPT !.function_id = Value(9)],
     [EmptyUpdate EXCEPT !.team_id = Value(9)],
     [EmptyUpdate EXCEPT !.capability_id = Value(9)],
     [EmptyUpdate EXCEPT !.function_id = Value(0)],
     [EmptyUpdate EXCEPT !.team_id = Value(3)]}

\* A payload of POST /api/responses naming a function that does not exist.
BadReferencePayloads ==
    {[function_id |-> 9, team_id |-> NULL, capability_id |-> 1, method_type |-> "task",
      description |-> "write mail", tools_used |-> <<>>, other_tools |-> <<>>,
      impacts |-> NoImpacts],
     [function_id |-> 1, team_id |-> 9, capability_id |-> 1, method_type |-> "task",
      description |-> "write mail", tools_used |-> <<>>, other_tools |-> <<>>,
      impacts |-> NoImpacts]}

NextUpdate ==
    \/ \E p \in EntryPayloads \cup BadReferencePayloads :
          seq.responses < MaxUpdates /\ create_response(p)
    \/ \E id \in 1..MaxUpdates, p \in UpdatePayloads : update_response(id, p)

SpecUpdate == Init /\ [][NextUpdate]_vars

\* ------------------------------------------------------------------------
\* Claims checked under SpecUpdate.
\* ------------------------------------------------------------------------

\* C14: an update of an existing entry that is answered with success always
\* sets updated_at to the operation time, whatever the payload holds, the
\* empty payload and a payload of nulls included.
C14_UpdatedAtAlwaysSet ==
    [][(last'.op = "update_response" /\ last'.status = 200)
       => \A r \in responses :
             r.id = last'.response_id
             => \E n \in responses' : n.id = r.id /\ n.updated_at > r.updated_at]_vars

\* The fields present in a payload, given as null or given a value.
PresentFields(p) == {f \in UpdateFields : p[f].kind # "unset"}

\* C15: an update changes nothing but the fields present in its payload and
\* updated_at: every other field of the entry, every other entry and every
\* taxonomy table is after the update as it was before.
C15_UpdateFrame ==
    [][last'.op = "update_response"
       => /\ Ids(responses') = Ids(responses)
          /\ Cardinality(responses') = Cardinality(responses)
          /\ \A r \in responses :
                IF r.id # last'.response_id
                THEN r \in responses'
                ELSE \E n \in responses' :
                        /\ n.id = r.id
                        /\ \A f \in (DOMAIN r) \ (PresentFields(last'.payload) \cup {"updated_at"}) :
                              n[f] = r[f]
          /\ UNCHANGED <<functions, teams, tools, capabilities>>]_vars

\* The description of entry 1 was updated while entry 2 was on file: entry 1
\* has the new description and a later updated_at and is otherwise as it
\* was filed, and entry 2 is as it was filed.
C15_Witness ==
    /\ last.op = "update_response"
    /\ last.status = 200
    /\ last.response_id = 1
    /\ last.payload = [EmptyUpdate EXCEPT !.description = Value("fix bugs")]
    /\ \E p \in EntryPayloads :
          /\ p.description = "write mail"
          /\ [ResponseRow(1, p) EXCEPT !.description = "fix bugs", !.updated_at = 1] \in responses
    /\ \E p \in EntryPayloads : ResponseRow(2, p) \in responses

\* C16: a field given as null is cleared to null in the stored entry, and a
\* field left out of the payload is untouched.
C16_ExplicitNullClears ==
    [][(last'.op = "update_response" /\ last'.status = 200)
       => \A r \in responses :
             r.id = last'.response_id
             => \E n \in responses' :
                   /\ n.id = r.id
                   /\ \A f \in UpdateFields :
                         /\ last'.payload[f].kind = "null" => n[f] = NULL
                         /\ last'.payload[f].kind = "unset" => n[f] = r[f]]_vars

\* A create payload names a function, a capability or a non-null team that
\* does not exist.
CreateNamesMissingRow(p) ==
    \/ p.function_id \notin Ids(functions)
    \/ p.capability_id \notin Ids(capabilities)
    \/ p.team_id # NULL /\ p.team_id \notin Ids(teams)

\* An update payload gives a function, a capability or a team that does not
\* exist.
UpdateNamesMissingRow(p) ==
    \/ p.function_id.kind = "value" /\ p.function_id.value \notin Ids(functions)
    \/ p.capability_id.kind = "value" /\ p.capability_id.value \notin Ids(capabilities)
    \/ p.team_id.kind = "value" /\ p.team_id.value \notin Ids(teams)

InvalidReference == {"Invalid function_id", "Invalid team_id", "Invalid capability_id"}

\* C17: a create, or an update of an existing entry, whose payload names a
\* function, a capability or a non-null team that does not exist is answered
\* with InvalidReference and leaves the entries unchanged.
C17_InvalidReferenceRejected ==
    [][/\ \A p \in EntryPayloads \cup BadReferencePayloads :
             (create_response(p) /\ CreateNamesMissingRow(p))
             => /\ last'.status = 400
                /\ last'.detail \in InvalidReference
                /\ responses' = responses
       /\ (/\ last'.op = "update_response"
           /\ last'.status # 404
           /\ UpdateNamesMissingRow(last'.payload))
          => /\ last'.status = 400
             /\ last'.detail \in InvalidReference
             /\ responses' = responses]_vars

\* ------------------------------------------------------------------------
\* Claims checked under Spec.
\* ------------------------------------------------------------------------

\* C18: in every reachable state every entry with a team references a team
\* of the entry's own function.
C18_TeamBelongsToFunction ==
    \A r \in responses :
        r.team_id # NULL
        => \E t \in teams : t.id = r.team_id /\ t.function_id = r.function_id

\* ------------------------------------------------------------------------
\* Taxonomy store: creates and updates of routes/config.py and crud.py.
\* ------------------------------------------------------------------------

\* NameClash that looks at the names on INSERT only.
NameClashOnInsert(rows, id, name) ==
    id = NULL /\ \E x \in rows : x.name = name

\* UNIQUE(name) on the row of this id (NULL for a row about to be inserted)
\* taking the name: another row already has it.
NameClash(rows, id, name) ==
    \E x \in rows : x.id # id /\ x.name = name

\* UNIQUE(function_id, name) of teams on the row of this id taking the name
\* under the function.
TeamNameClash(id, function_id, name) ==
    \E t \in teams : t.id # id /\ t.function_id = function_id /\ t.name = name

\* The answer recorded for a taxonomy create or update.
ConfigAnswer(op, status, detail, id, function_id, name) ==
    [op |-> op, status |-> status, detail |-> detail, id |-> id,
     function_id |-> function_id, name |-> name]

\* POST /api/config/functions
create_function(name) ==
    /\ txn = NoTxn
    /\ seq.functions < Cardinality(SeedFunctions) + MaxInserts
    /\ IF NameClash(functions, NULL, name)
       THEN \* sqlite3.IntegrityError, not caught: 500 and nothing committed
            /\ last' = ConfigAnswer("create_function", 500, "IntegrityError", NULL, NULL, name)
            /\ UNCHANGED <<functions, seq>>
       ELSE /\ functions' = functions \cup
                    {[id |-> seq.functions + 1, name |-> name, active |-> TRUE]}
            /\ seq' = [seq EXCEPT !.functions = @ + 1]
            /\ last' = ConfigAnswer("create_function", 200, NONE, NULL, NULL, name)
    /\ UNCHANGED <<teams, tools, capabilities, responses, exported, txn>>

\* PUT /api/config/functions/{function_id}
update_function(function_id, name) ==
    /\ txn = NoTxn
    /\ IF get_function(function_id) = {}
       THEN \* the UPDATE matches no row and get_function returns None
            /\ last' = ConfigAnswer("update_function", 404, "Function not found",
                                    function_id, NULL, name)
            /\ UNCHANGED functions
       ELSE IF NameClash(functions, function_id, name)
       THEN /\ last' = ConfigAnswer("update_function", 500, "IntegrityError",
                                    function_id, NULL, name)
            /\ UNCHANGED functions
       ELSE /\ functions' = {IF f.id = function_id THEN [f EXCEPT !.name = name] ELSE f :
                                f \in functions}
            /\ last' = ConfigAnswer("update_function", 200, NONE, function_id, NULL, name)
    /\ UNCHANGED <<teams, tools, capabilities, responses, seq, exported, txn>>

\* POST /api/config/teams
create_team(function_id, name) ==
    /\ txn = NoTxn
    /\ seq.teams < Cardinality(SeedTeams) + MaxInserts
    /\ IF function_id \notin Ids(functions) \/ TeamNameClash(NULL, function_id, name)
       THEN /\ last' = ConfigAnswer("create_team", 500, "IntegrityError",
                                    NULL, function_id, name)
            /\ UNCHANGED <<teams, seq>>
       ELSE /\ teams' = teams \cup
                    {[id |-> seq.teams + 1, function_id |-> function_id, name |-> name,
                      active |-> TRUE]}
            /\ seq' = [seq EXCEPT !.teams = @ + 1]
            /\ last' = ConfigAnswer("create_team", 200, NONE, NULL, function_id, name)
    /\ UNCHANGED <<functions, tools, capabilities, responses, exported, txn>>

\* PUT /api/config/teams/{team_id}: name and function_id are both written,
\* whether or not entries are filed under the team.
update_team(team_id, name, function_id) ==
    /\ txn = NoTxn
    /\ IF {t \in teams : t.id = team_id} = {}
       THEN /\ last' = ConfigAnswer("update_team", 404, "Team not found",
                                    team_id, function_id, name)
            /\ UNCHANGED teams
       ELSE IF function_id \notin Ids(functions) \/ TeamNameClash(team_id, function_id, name)
       THEN /\ last' = ConfigAnswer("update_team", 500, "IntegrityError",
                                    team_id, function_id, name)
            /\ UNCHANGED teams
       ELSE /\ teams' = {IF t.id = team_id
                         THEN [t EXCEPT !.name = name, !.function_id = function_id]
                         ELSE t : t \in teams}
            /\ last' = ConfigAnswer("update_team", 200, NONE, team_id, function_id, name)
    /\ UNCHANGED <<functions, tools, capabilities, responses, seq, exported, txn>>

\* POST /api/config/tools
create_tool(name) ==
    /\ txn = NoTxn
    /\ seq.tools < Cardinality(SeedTools) + MaxInserts
    /\ IF NameClash(tools, NULL, name)
       THEN /\ last' = ConfigAnswer("create_tool", 500, "IntegrityError", NULL, NULL, name)
            /\ UNCHANGED <<tools, seq>>
       ELSE /\ tools' = tools \cup {[id |-> seq.tools + 1, name |-> name, active |-> TRUE]}
            /\ seq' = [seq EXCEPT !.tools = @ + 1]
            /\ last' = ConfigAnswer("create_tool", 200, NONE, NULL, NULL, name)
    /\ UNCHANGED <<functions, teams, capabilities, responses, exported, txn>>

\* PUT /api/config/tools/{tool_id}
update_tool(tool_id, name) ==
    /\ txn = NoTxn
    /\ IF get_tool(tool_id) = {}
       THEN /\ last' = ConfigAnswer("update_tool", 404, "Tool not found", tool_id, NULL, name)
            /\ UNCHANGED tools
       ELSE IF NameClash(tools, tool_id, name)
       THEN /\ last' = ConfigAnswer("update_tool", 500, "IntegrityError", tool_id, NULL, name)
            /\ UNCHANGED tools
       ELSE /\ tools' = {IF t.id = tool_id THEN [t EXCEPT !.name = name] ELSE t : t \in tools}
            /\ last' = ConfigAnswer("update_tool", 200, NONE, tool_id, NULL, name)
    /\ UNCHANGED <<functions, teams, capabilities, responses, seq, exported, txn>>

\* POST /api/config/capabilities
create_capability(name) ==
    /\ txn = NoTxn
    /\ seq.capabilities < Cardinality(SeedCapabilities) + MaxInserts
    /\ IF NameClash(capabilities, NULL, name)
       THEN /\ last' = ConfigAnswer("create_capability", 500, "IntegrityError",
                                    NULL, NULL, name)
            /\ UNCHANGED <<capabilities, seq>>
       ELSE /\ capabilities' = capabilities \cup
                    {[id |-> seq.capabilities + 1, name |-> name, active |-> TRUE]}
            /\ seq' = [seq EXCEPT !.capabilities = @ + 1]
            /\ last' = ConfigAnswer("create_capability", 200, NONE, NULL, NULL, name)
    /\ UNCHANGED <<functions, teams, tools, responses, exported, txn>>

\* PUT /api/config/capabilities/{capability_id}
update_capability(capability_id, name) ==
    /\ txn = NoTxn
    /\ IF get_capability(capability_id) = {}
       THEN /\ last' = ConfigAnswer("update_capability", 404, "Capability not found",
                                    capability_id, NULL, name)
            /\ UNCHANGED capabilities
       ELSE IF NameClash(capabilities, capability_id, name)
       THEN /\ last' = ConfigAnswer("update_capability", 500, "IntegrityError",
                                    capability_id, NULL, name)
            /\ UNCHANGED capabilities
       ELSE /\ capabilities' = {IF c.id = capability_id THEN [c EXCEPT !.name = name] ELSE c :
                                   c \in capabilities}
            /\ last' = ConfigAnswer("update_capability", 200, NONE, capability_id, NULL, name)
    /\ UNCHANGED <<functions, teams, tools, responses, seq, exported, txn>>

\* ------------------------------------------------------------------------
\* SpecTaxonomy: taxonomy rows are created, renamed, moved and deleted.
\* ------------------------------------------------------------------------

\* An id no row has ever had.
UnknownId == 9

\* Names given to created and renamed rows: names of seeded rows and new ones.
FunctionNames == {"Marketing", "Ops"}

TeamNames == {"NA", "EMEA"}

ToolNames == {"Other", "Claude"}

CapabilityNames == {"Other", "Coding"}

\* Requests name the first seeded row of a table, a row that can be deleted
\* (function 2 once its team 3 is gone) or an id without a row.
NextTaxonomy ==
    \/ \E name \in FunctionNames : create_function(name)
    \/ \E id \in {1, UnknownId}, name \in FunctionNames : update_function(id, name)
    \/ \E id \in {2, UnknownId} : delete_function(id)
    \/ \E function_id \in {2, UnknownId}, name \in TeamNames :
          create_team(function_id, name)
    \/ \E id \in {1, UnknownId}, name \in TeamNames, function_id \in {1, 2, UnknownId} :
          update_team(id, name, function_id)
    \/ \E id \in {3, UnknownId} : delete_team(id)
    \/ \E name \in ToolNames : create_tool(name)
    \/ \E id \in {1, UnknownId}, name \in ToolNames : update_tool(id, name)
    \/ \E id \in {UnknownId} : delete_tool(id)
    \/ \E name \in CapabilityNames : create_capability(name)
    \/ \E id \in {1, UnknownId}, name \in CapabilityNames : update_capability(id, name)
    \/ \E id \in {UnknownId} : delete_capability(id)

SpecTaxonomy == Init /\ [][NextTaxonomy]_vars

\* ------------------------------------------------------------------------
\* Claims checked under SpecTaxonomy.
\* ------------------------------------------------------------------------

\* The table an update goes to.
TableOf(op) ==
    CASE op = "update_function" -> functions
      [] op = "update_team" -> teams
      [] op = "update_tool" -> tools
      [] op = "update_capability" -> capabilities

\* C19: an update or a delete of a function, team, tool or capability whose
\* id names no row is answered with 404 and leaves the store unchanged.
C19_UnknownIdNotFound ==
    [][/\ (/\ last'.op \in {"update_function", "update_team", "update_tool",
                            "update_capability"}
           /\ last'.id \notin Ids(TableOf(last'.op)))
          => last'.status = 404 /\ UNCHANGED db
       /\ \A id \in {UnknownId} :
             (\/ delete_function(id)
              \/ delete_team(id)
              \/ delete_tool(id)
              \/ delete_capability(id))
             => last'.status = 404 /\ UNCHANGED db]_vars

\* No two rows of a table share a name, and no two teams of one function do.
UniqueNames ==
    /\ \A a, b \in functions : a.name = b.name => a = b
    /\ \A a, b \in tools : a.name = b.name => a = b
    /\ \A a, b \in capabilities : a.name = b.name => a = b
    /\ \A a, b \in teams : (a.function_id = b.function_id /\ a.name = b.name) => a = b

\* The name (and, for a team, the function) of a create or an update is
\* the name of another row of the table (of another team of the function).
TakesNameInUse(req) ==
    CASE req.op \in {"create_function", "update_function"} ->
            \E x \in functions : x.id # req.id /\ x.name = req.name
      [] req.op \in {"create_tool", "update_tool"} ->
            \E x \in tools : x.id # req.id /\ x.name = req.name
      [] req.op \in {"create_capability", "update_capability"} ->
            \E x \in capabilities : x.id # req.id /\ x.name = req.name
      [] req.op \in {"create_team", "update_team"} ->
            \E x \in teams :
                x.id # req.id /\ x.function_id = req.function_id /\ x.name = req.name
      [] OTHER -> FALSE

\* C20: a create or a rename that takes a name in use (for a team: in use in
\* the function it is created in or moved to) fails and leaves the taxonomy
\* unchanged, and in every state names are unique per table and team names
\* per function.
C20_UniqueNames ==
    [][/\ TakesNameInUse(last') => (last'.status # 200 /\ UNCHANGED db)
       /\ UniqueNames']_vars

\* Team 1 "NA" of function 1 was sent to function 2, which has a team "NA":
\* the update failed and both teams are where they were.
C20_Witness ==
    /\ last.op = "update_team"
    /\ last.status = 500
    /\ last.id = 1
    /\ last.function_id = 2
    /\ last.name = "NA"
    /\ \E t \in teams : t.id = 1 /\ t.function_id = 1 /\ t.name = "NA"
    /\ \E t \in teams : t.id # 1 /\ t.function_id = 2 /\ t.name = "NA"

\* ------------------------------------------------------------------------
\* Spreadsheet seeding: crud.clear_and_reload_config.
\* ------------------------------------------------------------------------

\* INSERT OR IGNORE INTO <table> (name) VALUES (?) for each name of a list:
\* the rows and the AUTOINCREMENT counter after the loop.
RECURSIVE InsertOrIgnoreNames(_, _, _)
InsertOrIgnoreNames(rows, counter, names) ==
    IF names = <<>> THEN [rows |-> rows, counter |-> counter]
    ELSE IF \E x \in rows : x.name = Head(names)
    THEN InsertOrIgnoreNames(rows, counter, Tail(names))
    ELSE InsertOrIgnoreNames(
            rows \cup {[id |-> counter + 1, name |-> Head(names), active |-> TRUE]},
            counter + 1, Tail(names))

\* INSERT OR IGNORE INTO teams (function_id, name) VALUES (?, ?) for each
\* team name listed under one function id.
RECURSIVE InsertOrIgnoreTeams(_, _, _, _)
InsertOrIgnoreTeams(rows, counter, func_id, team_list) ==
    IF team_list = <<>> THEN [rows |-> rows, counter |-> counter]
    ELSE IF \E t \in rows : t.function_id = func_id /\ t.name = Head(team_list)
    THEN InsertOrIgnoreTeams(rows, counter, func_id, Tail(team_list))
    ELSE InsertOrIgnoreTeams(
            rows \cup {[id |-> counter + 1, function_id |-> func_id,
                        name |-> Head(team_list), active |-> TRUE]},
            counter + 1, func_id, Tail(team_list))

\* for func_name, team_list in teams.items(): the function is looked up by
\* name, and its teams are added only if a row is found.
RECURSIVE ReloadTeams(_, _, _, _)
ReloadTeams(rows, counter, function_rows, items) ==
    IF items = <<>> THEN [rows |-> rows, counter |-> counter]
    ELSE LET func_name == Head(items)[1]
             team_list == Head(items)[2]
         IN IF \E f \in function_rows : f.name = func_name
            THEN LET func_id == (CHOOSE f \in function_rows : f.name = func_name).id
                     added == InsertOrIgnoreTeams(rows, counter, func_id, team_list)
                 IN ReloadTeams(added.rows, added.counter, function_rows, Tail(items))
            ELSE ReloadTeams(rows, counter, function_rows, Tail(items))

\* The tables and counters clear_and_reload_config commits when it starts
\* from the tables and counters of s.
ReloadedConfig(s, args) ==
    LET f == InsertOrIgnoreNames(s.functions, s.seq.functions, args.functions)
        t == ReloadTeams(s.teams, s.seq.teams, f.rows, args.teams)
        o == InsertOrIgnoreNames(s.tools, s.seq.tools, args.tools)
        c == InsertOrIgnoreNames(s.capabilities, s.seq.capabilities, args.capabilities)
    IN [functions |-> f.rows, teams |-> t.rows, tools |-> o.rows, capabilities |-> c.rows,
        seq |-> [s.seq EXCEPT !.functions = f.counter, !.teams = t.counter,
                              !.tools = o.counter, !.capabilities = c.counter]]

\* The taxonomy tables and their counters in the current state.
ConfigState ==
    [functions |-> functions, teams |-> teams, tools |-> tools,
     capabilities |-> capabilities, seq |-> seq]

\* crud.clear_and_reload_config(functions, teams, tools, capabilities), the
\* teams dict given as the sequence of its items.
clear_and_reload_config(args) ==
    \E s \in {ReloadedConfig(ConfigState, args)} :
        /\ txn = NoTxn
        /\ s.seq.functions <= Cardinality(SeedFunctions) + MaxInserts
        /\ s.seq.teams <= Cardinality(SeedTeams) + MaxInserts
        /\ functions' = s.functions
        /\ teams' = s.teams
        /\ tools' = s.tools
        /\ capabilities' = s.capabilities
        /\ seq' = s.seq
        /\ last' = [op |-> "clear_and_reload_config", status |-> 200, args |-> args]
        /\ UNCHANGED <<responses, exported, txn>>

\* ------------------------------------------------------------------------
\* SpecReload: workbooks are loaded, teams and functions are deleted.
\* ------------------------------------------------------------------------

\* Arguments of clear_and_reload_config: names on file and new names, teams
\* under a function on file, under a function the same workbook adds, and
\* under a function that neither is on file nor is added.
ReloadArgs ==
    [functions : {<<>>, <<"Sales", "Ops">>},
     teams : {<<>>, <<<<"Sales", <<"NA", "West">>>>>>, <<<<"Ops", <<"Field">>>>>>,
              <<<<"Marketing", <<"Brand">>>>, <<"Ops", <<"Field">>>>>>},
     tools : {<<>>, <<"ChatGPT", "Claude">>},
     capabilities : {<<"Drafting">>, <<"Coding">>}]

NextReload ==
    \/ \E args \in ReloadArgs : clear_and_reload_config(args)
    \/ \E id \in TeamIds : delete_team(id)
    \/ \E id \in FunctionIds : delete_function(id)

SpecReload == Init /\ [][NextReload]_vars

\* ------------------------------------------------------------------------
\* Claims checked under SpecReload.
\* ------------------------------------------------------------------------

\* C21: clear_and_reload_config is insert-if-absent and never deletes.
\* Afterwards every named function, tool and capability exists, every named
\* team exists under its named function, every row that existed before is
\* there unchanged, and a second call with the same arguments changes no row.
C21_InsertIfAbsent ==
    [][last'.op = "clear_and_reload_config"
       => LET args == last'.args
          IN /\ \A i \in 1..Len(args.functions) :
                   \E f \in functions' : f.name = args.functions[i]
             /\ \A i \in 1..Len(args.tools) :
                   \E t \in tools' : t.name = args.tools[i]
             /\ \A i \in 1..Len(args.capabilities) :
                   \E c \in capabilities' : c.name = args.capabilities[i]
             /\ \A i \in 1..Len(args.teams) :
                   \A j \in 1..Len(args.teams[i][2]) :
                      \E f \in functions', t \in teams' :
                         /\ f.name = args.teams[i][1]
                         /\ t.function_id = f.id
                         /\ t.name = args.teams[i][2][j]
             /\ functions \subseteq functions'
             /\ teams \subseteq teams'
             /\ tools \subseteq tools'
             /\ capabilities \subseteq capabilities'
             /\ responses' = responses
             /\ LET again == ReloadedConfig(ConfigState', args)
                IN /\ again.functions = functions'
                   /\ again.teams = teams'
                   /\ again.tools = tools'
                   /\ again.capabilities = capabilities']_vars

\* ------------------------------------------------------------------------
\* Concurrent requests: a guarded delete and a create running on two
\* connections, one statement at a time.  txn holds the position of each
\* request that is between two of its statements.
\* ------------------------------------------------------------------------

Idle == [pc |-> "idle"]

\* The requests in flight: none when txn is NoTxn.
InFlight ==
    IF txn = NoTxn THEN [pc |-> "requests", deleting |-> Idle, creating |-> Idle] ELSE txn

\* txn once the requests in flight are t.
Settled(t) == IF t.deleting = Idle /\ t.creating = Idle THEN NoTxn ELSE t

\* DeleteKeysHold that never refuses a DELETE.
DeleteKeysUnchecked(table, id) == TRUE

\* PRAGMA foreign_keys = ON: a DELETE of a row is refused while a row of a
\* child table references it.
DeleteKeysHold(table, id) ==
    CASE table = "functions" ->
            /\ \A t \in teams : t.function_id # id
            /\ \A r \in responses : r.function_id # id
      [] table = "teams" -> \A r \in responses : r.team_id # id
      [] table = "capabilities" -> \A r \in responses : r.capability_id # id

\* The rows of a table.
RowsOf(table) ==
    CASE table = "functions" -> functions
      [] table = "teams" -> teams
      [] table = "capabilities" -> capabilities

\* The first SELECT COUNT(*) of crud.delete_function, delete_team or
\* delete_capability: dependents found, the delete is answered with 400.
DeleteCount(table, id) ==
    /\ txn = NoTxn \/ txn.pc = "requests"
    /\ InFlight.deleting = Idle
    /\ LET found == CASE table = "functions" -> TeamsOfFunction(id) # {}
                      [] table = "teams" -> ResponsesOfTeam(id) # {}
                      [] table = "capabilities" -> ResponsesOfCapability(id) # {}
       IN IF found
          THEN /\ last' = [op |-> "delete", table |-> table, id |-> id, status |-> 400]
               /\ UNCHANGED txn
          ELSE /\ txn' = [InFlight EXCEPT !.deleting =
                            [pc |-> IF table = "functions" THEN "counted_teams" ELSE "counted",
                             table |-> table, id |-> id]]
               /\ last' = [op |-> "count", table |-> table, id |-> id, status |-> 0]
    /\ UNCHANGED <<functions, teams, tools, capabilities, responses, seq, exported>>

\* The second SELECT COUNT(*) of crud.delete_function, over responses.
DeleteCountResponses ==
    /\ txn # NoTxn /\ txn.pc = "requests"
    /\ txn.deleting.pc = "counted_teams"
    /\ IF ResponsesOfFunction(txn.deleting.id) # {}
       THEN /\ txn' = Settled([txn EXCEPT !.deleting = Idle])
            /\ last' = [op |-> "delete", table |-> "functions", id |-> txn.deleting.id,
                        status |-> 400]
       ELSE /\ txn' = [txn EXCEPT !.deleting.pc = "counted"]
            /\ last' = [op |-> "count", table |-> "functions", id |-> txn.deleting.id,
                        status |-> 0]
    /\ UNCHANGED <<functions, teams, tools, capabilities, responses, seq, exported>>

\* DELETE FROM <table> WHERE id = ? and the commit: refused by a foreign key
\* (an IntegrityError nobody catches, 500), or answered by the rowcount.
DeleteStatement ==
    /\ txn # NoTxn /\ txn.pc = "requests"
    /\ txn.deleting.pc = "counted"
    /\ LET table == txn.deleting.table
           id == txn.deleting.id
           kept == {x \in RowsOf(table) : x.id # id}
       IN /\ IF ~DeleteKeysHold(table, id)
             THEN /\ last' = [op |-> "delete", table |-> table, id |-> id, status |-> 500]
                  /\ UNCHANGED <<functions, teams, capabilities>>
             ELSE /\ last' = [op |-> "delete", table |-> table, id |-> id,
                              status |-> IF kept = RowsOf(table) THEN 400 ELSE 200]
                  /\ functions' = IF table = "functions" THEN kept ELSE functions
                  /\ teams' = IF table = "teams" THEN kept ELSE teams
                  /\ capabilities' = IF table = "capabilities" THEN kept ELSE capabilities
          /\ txn' = Settled([txn EXCEPT !.deleting = Idle])
    /\ UNCHANGED <<tools, responses, seq, exported>>

\* The checks of the create_response route, before crud.create_response runs.
CreateValidate(p) ==
    /\ txn = NoTxn \/ txn.pc = "requests"
    /\ InFlight.creating = Idle
    /\ seq.responses < MaxResponses
    /\ IF CreateResponseRejection(p) # NONE
       THEN /\ last' = [op |-> "create_response", status |-> 400,
                        detail |-> CreateResponseRejection(p)]
            /\ UNCHANGED txn
       ELSE /\ txn' = [InFlight EXCEPT !.creating = [pc |-> "validated", payload |-> p]]
            /\ last' = [op |-> "validate", status |-> 0, detail |-> NONE]
    /\ UNCHANGED <<functions, teams, tools, capabilities, responses, seq, exported>>

\* The INSERT of crud.create_response and its commit.
CreateInsert ==
    /\ txn # NoTxn /\ txn.pc = "requests"
    /\ txn.creating.pc = "validated"
    /\ LET row == ResponseRow(seq.responses + 1, txn.creating.payload)
       IN IF ~(ResponseChecksHold(row) /\ ResponseKeysHold(row))
          THEN /\ last' = [op |-> "create_response", status |-> 500,
                           detail |-> "IntegrityError"]
               /\ UNCHANGED <<responses, seq>>
          ELSE /\ responses' = responses \cup {row}
               /\ seq' = [seq EXCEPT !.responses = @ + 1]
               /\ last' = [op |-> "create_response", status |-> 201, detail |-> NONE]
    /\ txn' = Settled([txn EXCEPT !.creating = Idle])
    /\ UNCHANGED <<functions, teams, tools, capabilities, exported>>

\* POST /api/config/teams while other requests are in flight: the one INSERT
\* of crud.create_team and its commit.
CreateTeamInsert(function_id, name) ==
    /\ txn = NoTxn \/ txn.pc = "requests"
    /\ seq.teams < Cardinality(SeedTeams) + MaxInserts
    /\ IF function_id \notin Ids(functions) \/ TeamNameClash(NULL, function_id, name)
       THEN /\ last' = ConfigAnswer("create_team", 500, "IntegrityError",
                                    NULL, function_id, name)
            /\ UNCHANGED <<teams, seq>>
       ELSE /\ teams' = teams \cup
                    {[id |-> seq.teams + 1, function_id |-> function_id, name |-> name,
                      active |-> TRUE]}
            /\ seq' = [seq EXCEPT !.teams = @ + 1]
            /\ last' = ConfigAnswer("create_team", 200, NONE, NULL, function_id, name)
    /\ UNCHANGED <<functions, tools, capabilities, responses, exported, txn>>

\* ------------------------------------------------------------------------
\* SpecRace: deletes of functions, teams and capabilities interleaved with
\* creates of entries and teams.
\* ------------------------------------------------------------------------

NextRace ==
    \/ \E table \in {"functions", "teams", "capabilities"}, id \in 1..3 : DeleteCount(table, id)
    \/ DeleteCountResponses
    \/ DeleteStatement
    \/ \E p \in EntryPayloads \cup StrayPayloads : CreateValidate(p)
    \/ CreateInsert
    \/ \E function_id \in FunctionIds, name \in {"West"} : CreateTeamInsert(function_id, name)

SpecRace == Init /\ [][NextRace]_vars

\* ------------------------------------------------------------------------
\* Claims checked under SpecRace.
\* ------------------------------------------------------------------------

\* C22: whatever the interleaving of a guarded delete with a create, no
\* entry references a function, team or capability that is gone, and no
\* team references a function that is gone.
C22_NoOrphans ==
    /\ \A r \in responses :
          /\ r.function_id \in Ids(functions)
          /\ r.capability_id \in Ids(capabilities)
          /\ r.team_id = NULL \/ r.team_id \in Ids(teams)
    /\ \A t \in teams : t.function_id \in Ids(functions)

\* A delete counted no dependents, a create then committed a row that
\* references the row to delete, and the DELETE was refused.
C22_Witness ==
    /\ last.op = "delete"
    /\ last.status = 500
    /\ last.table = "capabilities"
    /\ \E r \in responses : r.capability_id = last.id
    /\ last.id \in Ids(capabilities)

\* ------------------------------------------------------------------------
\* SpecStored: the application starts on a database file it finds (init_db
\* creates no table that exists and seeds no table that has rows), in which
\* rows may carry active = 0; entries are filed and exported.
\* ------------------------------------------------------------------------

\* rows with the row of this id stored as inactive.
Inactive(rows, id) == {IF x.id = id THEN [x EXCEPT !.active = FALSE] ELSE x : x \in rows}

InitStored ==
    /\ functions \in {SeedFunctions, Inactive(SeedFunctions, 1)}
    /\ teams \in {SeedTeams, Inactive(SeedTeams, 1)}
    /\ tools = SeedTools
    /\ capabilities \in {SeedCapabilities, Inactive(SeedCapabilities, 1)}
    /\ responses = {}
    /\ seq = [functions |-> 2, teams |-> 3, tools |-> 2, capabilities |-> 2, responses |-> 0]
    /\ exported = NoExport
    /\ txn = NoTxn
    /\ last = [op |-> "startup"]

NextStored ==
    \/ \E p \in EntryPayloads : create_response(p)
    \/ \E id \in ResponseIds : delete_response(id)
    \/ export_responses

SpecStored == InitStored /\ [][NextStored]_vars

\* ------------------------------------------------------------------------
\* Claims checked under SpecStored.
\* ------------------------------------------------------------------------

\* The name of the row of this id, active or not.
StoredName(rows, id) == (CHOOSE x \in rows : x.id = id).name

DanglingToolIds ==
    {x \in Ids(responses) \X (1..2) :
        \E r \in responses :
            /\ r.id = x[1]
            /\ x[2] \in 1..Len(r.tools_used)
            /\ r.tools_used[x[2]] \notin Ids(tools)}

\* C24: a tool is deleted whether or not entries hold its id, and no entry
\* is changed by it; the tools-used breakdown then counts every dangling id
\* under "Unknown".
C24_DanglingToolsCounted ==
    [][/\ (last'.op = "delete_tool" /\ last'.status = 200)
          => /\ responses' = responses
             /\ Cardinality(tools') = Cardinality(tools) - 1
       /\ \A id \in Ids(tools) : ENABLED delete_tool(id)
       /\ last'.op = "get_dashboard_tools_used"
          => \A name \in {"Unknown"} :
                IF DanglingToolIds' = {}
                THEN \A i \in 1..Len(last'.detail) : last'.detail[i].tool # name
                ELSE \E i \in 1..Len(last'.detail) :
                        /\ last'.detail[i].tool = name
                        /\ last'.detail[i].count = Cardinality(DanglingToolIds')]_vars

\* Tool 1 was deleted while an entry held its id, and the breakdown counts
\* the id of that entry under "Unknown".
C24_Witness ==
    /\ last.op = "get_dashboard_tools_used"
    /\ 1 \notin Ids(tools)
    /\ Cardinality(responses) = 1
    /\ \E r \in responses : r.tools_used = <<1, 2>>
    /\ \E i \in 1..Len(last.detail) : last.detail[i] = [tool |-> "Unknown", count |-> 1]

\* ------------------------------------------------------------------------
\* Entry import, one statement at a time: the validation loop reads the
\* taxonomy, then each staged row is inserted and committed on its own
\* (crud.create_response_from_dict), while deletes of teams and capabilities
\* commit on other connections in between.  txn holds the position of the
\* import between two of its statements.
\* ------------------------------------------------------------------------

\* The loop over rows_to_import when it stops at the first row that raises.
RestAfterAbort(staged) == <<>>

\* except Exception as e: the error is recorded and the loop goes on with
\* the next staged row.
RestAfterError(staged) == Tail(staged)

\* The validation loop, and the clear of replace mode.
ImportValidate(rows, mode) ==
    \E parsed \in {ParseRows(rows)} :
       /\ txn = NoTxn
       /\ seq.responses + Len(rows) <= MaxResponses
       /\ responses' = Cleared(mode, RowsToImport(parsed))
       /\ txn' = [pc |-> "import", rows |-> rows, mode |-> mode, base |-> seq.responses,
                  staged |-> RowsToImport(parsed), rows_to_import |-> RowsToImport(parsed),
                  errors |-> ReportedErrors(parsed), success |-> 0]
       /\ last' = [op |-> "validate", status |-> 0, rows |-> rows]
       /\ UNCHANGED <<functions, teams, tools, capabilities, seq, exported>>

\* One turn of the loop over rows_to_import: the INSERT and commit of the
\* next staged row, refused by the schema when a row it references is gone.
ImportInsert ==
    /\ txn.pc = "import"
    /\ txn.staged # <<>>
    /\ LET row == ResponseRow(seq.responses + 1, Head(txn.staged))
       IN IF ResponseChecksHold(row) /\ ResponseKeysHold(row)
          THEN /\ responses' = responses \cup {row}
               /\ seq' = [seq EXCEPT !.responses = @ + 1]
               /\ txn' = [txn EXCEPT !.staged = Tail(@), !.success = @ + 1]
               /\ last' = [op |-> "insert", status |-> 0, rows |-> txn.rows]
          ELSE /\ txn' = [txn EXCEPT !.staged = RestAfterError(@),
                                     !.errors = Append(@, [row |-> "unknown",
                                                           errors |-> <<"IntegrityError">>])]
               /\ last' = [op |-> "insert", status |-> 1, rows |-> txn.rows]
               /\ UNCHANGED <<responses, seq>>
    /\ UNCHANGED <<functions, teams, tools, capabilities, exported>>

\* results['total_rows'] = len(rows_to_import) + len(results['errors']) and
\* the answer of the route.
ImportReturn ==
    /\ txn.pc = "import"
    /\ txn.staged = <<>>
    /\ last' = [op |-> "import_responses", status |-> 200, rows |-> txn.rows,
                detail |-> [success |-> txn.success, errors |-> txn.errors,
                            mode |-> txn.mode,
                            total_rows |-> Len(txn.rows_to_import) + Len(txn.errors)]]
    /\ txn' = NoTxn
    /\ UNCHANGED db
    /\ UNCHANGED exported

\* DELETE /api/config/teams/{id} or capabilities/{id} answered on another
\* connection while the import is between two statements.
ConcurrentDelete(table, id) ==
    /\ txn.pc = "import"
    /\ LET found == CASE table = "teams" -> ResponsesOfTeam(id) # {}
                      [] table = "capabilities" -> ResponsesOfCapability(id) # {}
           kept == {x \in RowsOf(table) : x.id # id}
       IN /\ teams' = IF table = "teams" /\ ~found THEN kept ELSE teams
          /\ capabilities' = IF table = "capabilities" /\ ~found THEN kept ELSE capabilities
          /\ last' = [op |-> "delete", table |-> table, id |-> id, rows |-> txn.rows,
                      status |-> IF found \/ kept = RowsOf(table) THEN 400 ELSE 200]
    /\ UNCHANGED <<functions, tools, responses, seq, exported, txn>>

\* The files imported while rows are deleted: up to MaxRows rows, well-formed
\* (with and without a team) or failing validation.
RaceFiles == UNION {[1..n -> {GoodRow, TidyRow, BogusRow}] : n \in 0..MaxRows}

\* SpecImportRace: files are imported in either mode while teams and
\* capabilities are deleted.
NextImportRace ==
    \/ \E rows \in RaceFiles, mode \in {"append", "replace"} : ImportValidate(rows, mode)
    \/ ImportInsert
    \/ ImportReturn
    \/ \E table \in {"teams", "capabilities"}, id \in {1} : ConcurrentDelete(table, id)

SpecImportRace == Init /\ [][NextImportRace]_vars

\* ------------------------------------------------------------------------
\* Claims checked under SpecImportRace.
\* ------------------------------------------------------------------------

\* C25: the staged rows of an import are committed one at a time.  A row the
\* database refuses is recorded as an error and the rows after it are still
\* committed: every turn of the loop takes exactly one staged row, a row
\* whose references exist is inserted whatever happened to the rows before
\* it, and the success count of the answer is the number of rows inserted.
C25_BestEffortCommit ==
    [][/\ (last'.op = "insert")
          => /\ txn'.staged = Tail(txn.staged)
             /\ ResponseKeysHold(ResponseRow(NULL, Head(txn.staged)))
                   => /\ Cardinality(responses') = Cardinality(responses) + 1
                      /\ \E r \in responses' \ responses :
                            Content(r) = ResponseRow(NULL, Head(txn.staged))
             /\ ~ResponseKeysHold(ResponseRow(NULL, Head(txn.staged)))
                   => /\ responses' = responses
                      /\ Len(txn'.errors) = Len(txn.errors) + 1
       /\ (last'.op = "import_responses")
          => /\ last'.detail.success = Cardinality({r \in responses : r.id > txn.base})
             /\ Len(last'.detail.errors)
                   = (Len(txn.rows) - Len(txn.rows_to_import))
                       + (Len(txn.rows_to_import) - last'.detail.success)]_vars

\* Both rows of a file were staged, team NA was deleted before the first was
\* committed: the first row is reported at 'unknown', the second is stored.
C25_Witness ==
    /\ last.op = "import_responses"
    /\ last.rows = <<TidyRow, GoodRow>>
    /\ last.detail.success = 1
    /\ last.detail.errors = <<[row |-> "unknown", errors |-> <<"IntegrityError">>]>>
    /\ \E r \in responses : Content(r) = ExpectedEntry(GoodRow)
    /\ 1 \notin Ids(teams)

\* C29: the total_rows of an import answer is the number of data rows of the
\* file: for an entry import, also when staged rows were refused at their
\* commit; for a taxonomy import, where it is added + skipped + error rows.
C29_TotalRows ==
    [][/\ last'.op = "import_responses" => last'.detail.total_rows = Len(last'.rows)
       /\ (/\ last'.op \in {"import_functions", "import_teams", "import_tools",
                            "import_capabilities"}
           /\ last'.status = 200)
          => /\ last'.detail.total_rows = Len(last'.rows)
             /\ last'.detail.total_rows
                   = last'.detail.success + last'.detail.skipped + Len(last'.detail.errors)]_vars

\* ------------------------------------------------------------------------
\* SpecLenient: files whose rows carry impact cells the schema would refuse,
\* and team names that do not resolve, are imported in either mode.
\* ------------------------------------------------------------------------

\* A well-formed row whose first impact slot holds an unknown type, a
\* frequency the schema does not know and two cells float() refuses, and
\* whose second slot is valid.
SloppyRow ==
    [GoodRow EXCEPT !.impacts =
        <<[type |-> "bogus", value |-> "abc", frequency |-> "quarterly",
           annual_value |-> "12x"],
          [type |-> "quality", value |-> "5", frequency |-> "weekly",
           annual_value |-> "260"],
          NoImpactCells, NoImpactCells>>]

\* A row whose function does not exist and whose team exists under another
\* function; a row whose function exists and whose team is a team of
\* another function.
OrphanTeamRow == CsvRow("Ops", "NA", "Drafting", "task", "write mail", <<>>)

StrangerTeamRow == CsvRow("Sales", "Brand", "Drafting", "task", "write mail", <<>>)

LenientRows == {GoodRow, SloppyRow, OrphanTeamRow, StrangerTeamRow}

LenientFiles == UNION {[1..n -> LenientRows] : n \in 0..MaxRows}

NextLenient ==
    \/ \E p \in EntryPayloads : seq.responses < MaxInserts /\ create_response(p)
    \/ \E rows \in LenientFiles, mode \in {"append", "replace"} :
          seq.responses + Len(rows) <= MaxResponses /\ import_responses(rows, mode)

SpecLenient == Init /\ [][NextLenient]_vars

\* ------------------------------------------------------------------------
\* Claims checked under SpecLenient.
\* ------------------------------------------------------------------------

\* The names, lowered, a cell may resolve to.
KnownNames(rows) == {Lower(x.name) : x \in rows}

\* The causes the import may fail a row for.
RowFails(row) ==
    \/ Strip(row.function) = ""
    \/ Lower(Strip(row.function)) \notin KnownNames(get_functions)
    \/ Strip(row.capability) = ""
    \/ Lower(Strip(row.capability)) \notin KnownNames(get_capabilities)
    \/ Lower(Strip(row.method_type)) \notin MethodType
    \/ Strip(row.description) = ""
    \/ \E i \in 1..Len(row.tools) :
          Strip(row.tools[i]) # "" /\ Lower(Strip(row.tools[i])) \notin KnownNames(get_tools)
    \/ /\ Strip(row.team) # ""
       /\ \E f \in get_functions :
             /\ Lower(f.name) = Lower(Strip(row.function))
             /\ Lower(Strip(row.team))
                   \notin KnownNames({t \in get_teams : t.function_id = f.id})

\* The impact slots stored for the rows of LenientRows that are imported.
StoredImpacts(row) ==
    IF row = SloppyRow
    THEN <<NoImpact,
           [type |-> "quality", value |-> 5, frequency |-> "weekly", annual_value |-> 260],
           NoImpact, NoImpact>>
    ELSE NoImpacts

\* C26: an invalid impact type, an invalid frequency or an unparsable number
\* never fails a row: the field is stored as null and the row is imported.
\* A row fails only for a missing or unresolvable function or capability, a
\* missing description, an invalid method_type, an unresolvable tool, or a
\* team that does not resolve under a function that did; a team under a
\* function that did not resolve raises no error of its own.
C26_LenientImpacts ==
    [][last'.op = "import_responses" =>
         LET rows == last'.rows
             errors == last'.detail.errors
             failing == {i \in 1..Len(rows) : RowFails(rows[i])}
             added == {r \in responses' : r.id > seq.responses}
         IN /\ {errors[k].row : k \in 1..Len(errors)} = {i + 1 : i \in failing}
            /\ Len(errors) = Cardinality(failing)
            /\ last'.detail.success = Len(rows) - Cardinality(failing)
            /\ Cardinality(added) = Len(rows) - Cardinality(failing)
            /\ \A i \in 1..Len(rows) :
                  i \notin failing =>
                     \E r \in added :
                        /\ r.id = seq.responses
                                    + Cardinality({j \in 1..i : j \notin failing})
                        /\ r.description = Strip(rows[i].description)
                        /\ r.impacts = StoredImpacts(rows[i])
            /\ \A k \in 1..Len(errors) :
                  rows[errors[k].row - 1] = OrphanTeamRow
                     => errors[k].errors = <<"Unknown function: Ops">>
            /\ \A k \in 1..Len(errors) :
                  rows[errors[k].row - 1] = StrangerTeamRow
                     => errors[k].errors = <<"Unknown team: Brand (for function Sales)">>]_vars

\* A file with the sloppy row and the row of the unknown function was
\* imported: the sloppy row is stored with its first slot null, the other
\* row is reported for its function only.
C26_Witness ==
    /\ last.op = "import_responses"
    /\ last.rows = <<SloppyRow, OrphanTeamRow>>
    /\ last.detail.success = 1
    /\ last.detail.errors = <<[row |-> 3, errors |-> <<"Unknown function: Ops">>]>>
    /\ \E r \in responses :
          /\ r.id = seq.responses
          /\ r.impacts[1] = NoImpact
          /\ r.impacts[2].type = "quality"

\* ------------------------------------------------------------------------
\* SpecIntegrity: every kind of write of the application.  Entries are
\* filed, updated and withdrawn; functions, teams and capabilities are
\* created, renamed, re-parented and deleted; teams are merged away; entry
\* and taxonomy files are imported.
\* ------------------------------------------------------------------------

\* Updates that name a row that does not exist, by an id the route checks
\* (9) or one it does not look at (0), and one that names existing rows.
IntegrityUpdates ==
    {[EmptyUpdate EXCEPT !.function_id = Value(9)],
     [EmptyUpdate EXCEPT !.function_id = Value(0)],
     [EmptyUpdate EXCEPT !.team_id = Value(9)],
     [EmptyUpdate EXCEPT !.function_id = Value(2), !.team_id = Value(3)]}

NextIntegrity ==
    \/ \E p \in EntryPayloads \cup BadReferencePayloads :
          seq.responses < MaxInserts /\ create_response(p)
    \/ \E id \in {1}, p \in IntegrityUpdates : update_response(id, p)
    \/ \E id \in {1} : delete_response(id)
    \/ \E function_id \in {2, UnknownId} : create_team(function_id, "West")
    \/ \E function_id \in {2, UnknownId} : update_team(3, "Brand", function_id)
    \/ \E id \in {1, 3} : delete_team(id)
    \/ \E id \in {2} : delete_function(id)
    \/ \E id \in {1} : delete_capability(id)
    \/ \E target \in {NULL, 2, 3} : move_entries_and_delete_team(1, target)
    \/ \E rows \in {<<TidyRow>>, <<GoodRow, UnknownRow>>}, mode \in {"append", "replace"} :
          seq.responses + Len(rows) <= MaxResponses /\ import_responses(rows, mode)
    \/ \E rows \in {<<"Task">>} : import_functions(rows, "replace")
    \/ \E rows \in {<<[function |-> "SALES", team |-> "Brand"]>>} :
          import_teams(rows, "replace")
    \/ \E rows \in {<<"Drafting">>} : import_capabilities(rows, "replace")

SpecIntegrity == Init /\ [][NextIntegrity]_vars

\* ------------------------------------------------------------------------
\* Claims checked under SpecIntegrity.
\* ------------------------------------------------------------------------

\* C27: referential integrity.  After any sequence of writes the functions
\* referenced by entries and by teams, the capabilities referenced by
\* entries and the teams referenced by entries are all stored rows.
C27_ReferentialIntegrity ==
    /\ {r.function_id : r \in responses} \cup {t.function_id : t \in teams}
          \subseteq Ids(functions)
    /\ {r.capability_id : r \in responses} \subseteq Ids(capabilities)
    /\ {r.team_id : r \in responses} \ {NULL} \subseteq Ids(teams)

\* An update that names function 0 passed the checks of the route and was
\* refused by the database; the entry still references its function.
C27_Witness ==
    /\ last.op = "update_response"
    /\ last.status = 500
    /\ last.payload = [EmptyUpdate EXCEPT !.function_id = Value(0)]
    /\ \E r \in responses : r.id = 1 /\ r.function_id \in Ids(functions)

\* ------------------------------------------------------------------------
\* The function breakdown with teams: get_dashboard_by_function_with_teams
\* of crud.py and its route in routes/responses.py.
\* ------------------------------------------------------------------------

\* The team join without its condition on the function of the entry.
TeamEntriesAnyFunction(function_id, team_id) ==
    {r \in responses : r.team_id = team_id}

\* LEFT JOIN responses r ON t.id = r.team_id AND r.function_id = ?
TeamEntries(function_id, team_id) ==
    {r \in responses : r.team_id = team_id /\ r.function_id = function_id}

\* The team rows of one function: one per active team of the function.
TeamBreakdown(function_id) ==
    {LET rows == TeamEntries(function_id, t.id)
     IN [team_id |-> t.id, team_name |-> t.name,
         method_count |-> Cardinality(rows),
         workflow_count |-> CountOfMethod(rows, "workflow"),
         task_count |-> CountOfMethod(rows, "task"),
         experiment_count |-> CountOfMethod(rows, "experiment"),
         cost_savings |-> SlotSums(rows, "cost_savings"),
         time_savings |-> SlotSums(rows, "time_savings")]
     : t \in {x \in teams : x.function_id = function_id /\ x.active}}

\* crud.get_dashboard_by_function_with_teams(): the rows of
\* get_dashboard_by_function, each with its team rows; has_no_teams is set
\* on the functions without an active team (the rows are kept as a set).
get_dashboard_by_function_with_teams ==
    {[function_id |-> f.function_id, function_name |-> f.function_name,
      method_count |-> f.method_count, workflow_count |-> f.workflow_count,
      task_count |-> f.task_count, experiment_count |-> f.experiment_count,
      cost_savings |-> f.cost_savings, time_savings |-> f.time_savings,
      quality_count |-> f.quality_count,
      new_capability_count |-> f.new_capability_count,
      teams |-> TeamBreakdown(f.function_id),
      has_no_teams |-> TeamBreakdown(f.function_id) = {}]
     : f \in get_dashboard_by_function}

\* GET /api/dashboard/by-function-with-teams
dashboard_by_function_with_teams ==
    /\ txn = NoTxn
    /\ last' = [op |-> "get_dashboard_by_function_with_teams", status |-> 200,
                detail |-> get_dashboard_by_function_with_teams]
    /\ UNCHANGED <<functions, teams, tools, capabilities, responses, seq, exported, txn>>

\* SpecAggregates: on a database started with active or inactive rows,
\* entries are filed and withdrawn and the dashboards are read.
NextAggregates ==
    \/ \E p \in DashboardPayloads \cup StrayPayloads : create_response(p)
    \/ \E id \in ResponseIds : delete_response(id)
    \/ dashboard_summary
    \/ dashboard_by_category
    \/ dashboard_by_function
    \/ dashboard_by_function_with_teams

SpecAggregates == InitStored /\ [][NextAggregates]_vars

\* ------------------------------------------------------------------------
\* Claims checked under SpecAggregates.
\* ------------------------------------------------------------------------

\* The sum of the second components of a set of <<key, number>> pairs.
RECURSIVE SumOfPairs(_)
SumOfPairs(pairs) ==
    IF pairs = {} THEN 0
    ELSE LET x == CHOOSE y \in pairs : TRUE
         IN x[2] + SumOfPairs(pairs \ {x})

\* C28: in every state the counts of the three categories add up to the
\* total_methods of the summary; when every function is active, the
\* method_count and the cost_savings of the function rows add up to the
\* total_methods and total_cost_savings of the summary; and the
\* method_count of the team rows of a function add up to at most the
\* method_count of the function.
C28_AggregationConsistency ==
    /\ SumOfPairs({<<m, get_dashboard_by_category[m].count>> : m \in MethodType})
          = get_dashboard_summary.total_methods
    /\ (\A f \in functions : f.active)
          => /\ SumOfPairs({<<f.function_id, f.method_count>> :
                               f \in get_dashboard_by_function})
                   = get_dashboard_summary.total_methods
             /\ SumOfPairs({<<f.function_id, f.cost_savings>> :
                               f \in get_dashboard_by_function})
                   = get_dashboard_summary.total_cost_savings
    /\ \A f \in get_dashboard_by_function_with_teams :
          SumOfPairs({<<t.team_id, t.method_count>> : t \in f.teams}) <= f.method_count

\* Every function is active, entries with cost savings are filed under both
\* functions, one of them under a team of the other function and one without
\* a team, and the breakdown with teams was read.
C28_Witness ==
    /\ last.op = "get_dashboard_by_function_with_teams"
    /\ \A f \in functions : f.active
    /\ get_dashboard_summary.total_methods = 3
    /\ get_dashboard_summary.total_cost_savings = 150
    /\ \E r \in responses : r.function_id = 2 /\ r.team_id = 1
    /\ \E r \in responses : r.function_id = 1 /\ r.team_id = NULL
    /\ \E r \in responses : r.function_id = 1 /\ r.team_id = 1

\* ------------------------------------------------------------------------
\* The auth gate: AuthMiddleware.dispatch of main.py, which every request
\* passes before its route.  crud.get_session and crud.extend_session are
\* not among the source files: a session is a row of the sessions table
\* with a token, the role of its user and an expiry time; get_session
\* returns the row of the token while it has not expired, extend_session
\* moves the expiry to SESSION_HOURS from now.
\* ------------------------------------------------------------------------

MaxTime == 2

SESSION_HOURS == 24

PUBLIC_PATHS == {"/login", "/health", "/api/auth/login", "/api/version"}

PUBLIC_PREFIXES == {"/static/"}

ADMIN_PATHS == {"/users", "/config"}

ADMIN_API_PREFIXES == {"/api/auth/users"}

\* A prefix test that asks for the whole path.
IsExactly(path, prefix) == path = prefix

\* path.startswith(prefix)
StartsWith(path, prefix) ==
    /\ Len(path) >= Len(prefix)
    /\ SubSeq(path, 1, Len(prefix)) = prefix

\* crud.get_session(token) if token else None: the rows a request with this
\* cookie is recognised by (NONE is the request without the cookie).
get_session(sessions, token, now) ==
    IF token = NONE \/ token = "" THEN {}
    ELSE {s \in sessions : s.token = token /\ s.expires_at > now}

\* crud.extend_session(token)
extend_session(sessions, token, now) ==
    {IF s.token = token THEN [s EXCEPT !.expires_at = now + SESSION_HOURS] ELSE s
     : s \in sessions}

\* The answers of the middleware itself.
Answer(status, location, sessions) ==
    [status |-> status, location |-> location, reached |-> FALSE, extended |-> FALSE,
     sessions |-> sessions]

\* call_next(request): the request reaches its route, which answers.
CallNext(extended, sessions) ==
    [status |-> 200, location |-> NONE, reached |-> TRUE, extended |-> extended,
     sessions |-> sessions]

\* AuthMiddleware.dispatch on a request for path carrying the cookie token,
\* with the sessions table as it is at time now.
dispatch(path, token, sessions, now) ==
    IF path \in PUBLIC_PATHS THEN CallNext(FALSE, sessions)
    ELSE IF \E prefix \in PUBLIC_PREFIXES : StartsWith(path, prefix)
    THEN CallNext(FALSE, sessions)
    ELSE IF get_session(sessions, token, now) = {}
    THEN IF StartsWith(path, "/api/")
         THEN Answer(401, NONE, sessions)
         ELSE Answer(302, "/login", sessions)
    ELSE LET session == CHOOSE s \in get_session(sessions, token, now) : TRUE
         IN IF path \in ADMIN_PATHS /\ session.role # "admin"
            THEN Answer(302, "/", sessions)
            ELSE IF /\ \E prefix \in ADMIN_API_PREFIXES : StartsWith(path, prefix)
                    /\ session.role # "admin"
            THEN Answer(403, NONE, sessions)
            ELSE CallNext(TRUE, extend_session(sessions, token, now))

\* One request through the middleware.
handle_request(path, token, sessions, now) ==
    /\ txn = NoTxn
    /\ last' = [op |-> "dispatch", path |-> path, token |-> token, now |-> now,
                sessions |-> sessions, status |-> dispatch(path, token, sessions, now).status,
                detail |-> dispatch(path, token, sessions, now)]
    /\ UNCHANGED db
    /\ UNCHANGED <<exported, txn>>

\* Paths of requests: the public ones, a static file, pages, admin pages,
\* API routes, admin API routes, and paths that only resemble public ones.
RequestPaths ==
    PUBLIC_PATHS \cup ADMIN_PATHS \cup
    {"/static/app.js", "/staticfile", "/", "/login/x", "/api/responses", "/api/auth/me",
     "/api/auth/users", "/api/auth/users/3", "/api/version/x"}

\* Cookies of requests: none, empty, unknown, and the tokens of the sessions.
RequestTokens == {NONE, "", "bogus", "adm", "usr"}

\* The sessions table: an admin's and a user's session, each expiring at
\* some time.
SessionTables ==
    {{[token |-> "adm", role |-> "admin", expires_at |-> a],
      [token |-> "usr", role |-> "user", expires_at |-> u]} : a \in 1..MaxTime, u \in 1..MaxTime}

NextAuth ==
    \E path \in RequestPaths, token \in RequestTokens, sessions \in SessionTables,
       now \in 0..(MaxTime - 1) :
          handle_request(path, token, sessions, now)

SpecAuth == Init /\ [][NextAuth]_vars

\* ------------------------------------------------------------------------
\* Claims checked under SpecAuth.
\* ------------------------------------------------------------------------

\* The request of the last step carried the token of a session that had not
\* expired, of the given roles.
HadSession(roles) ==
    /\ last.token \notin {NONE, ""}
    /\ \E s \in last.sessions :
          s.token = last.token /\ s.expires_at > last.now /\ s.role \in roles

\* The path neither is one of the four public paths nor lies under /static/.
Gated(path) ==
    /\ path \notin {"/login", "/health", "/api/auth/login", "/api/version"}
    /\ ~(Len(path) >= 8 /\ SubSeq(path, 1, 8) = "/static/")

\* C30: a request for a gated path without a valid session never reaches
\* its route: it is answered 401 under /api/ and redirected to /login
\* elsewhere; a request under /api/auth/users with the session of a
\* non-admin never reaches its route; and the session is extended only by
\* requests that pass both checks, every other request leaving the
\* sessions table as it was.
C30_AuthGate ==
    last.op = "dispatch"
    => /\ (Gated(last.path) /\ ~HadSession({"admin", "user"}))
             => /\ ~last.detail.reached
                /\ IF Len(last.path) >= 5 /\ SubSeq(last.path, 1, 5) = "/api/"
                   THEN last.detail.status = 401
                   ELSE last.detail.status = 302 /\ last.detail.location = "/login"
       /\ (/\ Len(last.path) >= 15 /\ SubSeq(last.path, 1, 15) = "/api/auth/users"
           /\ ~HadSession({"admin"}))
             => ~last.detail.reached
       /\ last.detail.extended
             => /\ Gated(last.path)
                /\ HadSession({"admin", "user"})
                /\ last.path \in {"/users", "/config"} => HadSession({"admin"})
                /\ last.detail.reached
       /\ ~last.detail.extended => last.detail.sessions = last.sessions
       /\ last.detail.extended
             => \E s \in last.detail.sessions :
                   s.token = last.token /\ s.expires_at = last.now + SESSION_HOURS

\* A user with a live session asked for a route under /api/auth/users: the
\* answer is 403, the route was not reached and the session not extended.
C30_Witness ==
    /\ last.op = "dispatch"
    /\ last.path = "/api/auth/users/3"
    /\ last.token = "usr"
    /\ HadSession({"user"})
    /\ last.detail.status = 403
    /\ ~last.detail.reached
    /\ last.detail.sessions = last.sessions

====
